---- MODULE Spec2Model ----
(***************************************************************************)
(* SheetAPI: the smart-sync ingestion pipeline (processWorkbook and        *)
(* db.saveRecordSmart), the other writers of the records table            *)
(* (triggerAutoPull, handleSync, handleManualAdd, restoreBackup,           *)
(* clearRecords), the client-side snapshots (createBackup) and the read    *)
(* API (GET /api/v1/data).                                                 *)
(*                                                                         *)
(* The records table lives in a remote store: every store call is one      *)
(* atomic step at the store, and the steps of calls that are in flight at  *)
(* the same time interleave in any order.  Code between two awaits runs    *)
(* without interruption (one JavaScript turn) and is one action.           *)
(***************************************************************************)
EXTENDS Integers, Sequences, FiniteSets, TLC

\* ------------------------------------------------------------ bounds
MaxRows == 2         \* data rows of one workbook
MaxTabs == 2         \* tabs of one workbook
MaxRecords == 2      \* rows of the records table
MaxSheet == 137      \* rows of a sheet given to the chunk loop
MaxCreates == 6      \* snapshots created while retention is watched
MaxSnaps == 1        \* snapshots created while restores are watched
MaxPending == 2      \* db.createBackup calls in flight at once
MaxSyncSnaps == 2    \* snapshots asked for while the entry points are watched
MaxSyncRows == 1     \* data rows of a workbook given to an entry point
MaxAudit == 1        \* audit inserts sent while the read API is watched
MaxReadRecords == 3  \* rows of the records table while reads are watched
MaxLogs == 2         \* sync log entries appended while the entry points are watched
MaxRestore == 51     \* rows of a store that is snapshotted and restored
MaxPulls == 2        \* triggerAutoPull calls in flight
MaxManual == 2       \* rows of the records table while manual entry is watched

\* ------------------------------------------------- program constants
chunkSize == 50      \* processWorkbook / restoreBackup chunk size
KeepBackups == 5     \* createBackup: slice(0, 5)

\* ----------------------------------------------------------- values
\* A row payload (raw_data) is a flat JSON object: a set of <<key, value>>.
RowA == {<<"Name", "x">>}
RowAB == {<<"Name", "x">>, <<"Amt", "5">>}
\* A row of a sheet that has columns named id and date.
RowId == {<<"id", "7">>, <<"date", <<"due">>>>}
Payloads == {RowA, RowAB}

\* Two calendar days: the day of a run and another one.
Days == {1, 2}

\* new Date().toISOString(): "<YYYY-MM-DD>T<time>Z", as the day, the
\* letter T and the time of day.
ToISOString(day) == <<ToString(day), "T", "12:00:00.000Z">>

RECURSIVE SplitT0(_)
\* s.split('T')[0]: what precedes the first "T" (all of s without one).
SplitT0(s) ==
  IF s = <<>> \/ Head(s) = "T" THEN <<>>
  ELSE <<Head(s)>> \o SplitT0(Tail(s))

\* Postgres JSONB containment, stored @> candidate, on flat objects.
Contains(stored, candidate) == candidate \subseteq stored

RECURSIVE Flatten(_)
\* allRows.push(...json) for every tab, in tab order.
Flatten(tabs) ==
  IF tabs = <<>> THEN <<>> ELSE Head(tabs) \o Flatten(Tail(tabs))

RECURSIVE SeqsUpTo(_, _)
SeqsUpTo(S, n) ==
  IF n = 0 THEN {<<>>}
  ELSE LET shorter == SeqsUpTo(S, n - 1)
       IN  shorter \cup {Append(s, x) : s \in shorter, x \in S}

\* XLSX.utils.sheet_to_json of one tab: the data rows below the header.
Tabs == SeqsUpTo(Payloads, MaxRows)
\* The workbooks of up to MaxTabs tabs and n data rows: without a tab,
\* with tabs that have a header only, with data rows.
Workbooks(n) ==
  {wb \in SeqsUpTo(Tabs, MaxTabs) : Len(Flatten(wb)) <= n}

Reverse(s) == [k \in 1..Len(s) |-> s[Len(s) + 1 - k]]

Take(s, n) == IF Len(s) <= n THEN s ELSE SubSeq(s, 1, n)

\* array.slice(from, to) with 0-based bounds, as JavaScript clamps them.
Slice(s, from, to) ==
  LET hi == IF to < Len(s) THEN to ELSE Len(s)
  IN  IF from >= hi THEN <<>> ELSE SubSeq(s, from + 1, hi)

VARIABLES
  today,      \* the calendar day of the wall clock (UTC)
  records,    \* table records, in insertion (created_at) order
  backups,    \* localStorage sheet_api_backups, newest first
  nextBackup, \* number of snapshots created so far (their ids)
  cbs,        \* db.createBackup calls in flight, in call order
  pw,         \* the processWorkbook run of the Upload component
  disturbed,  \* operations since whose start another operation wrote records
  hist,       \* the last undisturbed processWorkbook run, while nothing else wrote
  rb,         \* the db.restoreBackup call
  ck,         \* the chunk loop of processWorkbook on a sheet of n rows
  sy,         \* Upload: the syncGoogleSheet call or the file upload
  ap,         \* App: the triggerAutoPull call
  hs,         \* Dashboard: the handleSync call
  apiKeys,    \* table api_keys, in insertion order
  req,        \* GET /api/v1/data: the request in hand and its response
  auditLogs,  \* table audit_logs: the owner named by each API_PULL entry
  auditInFlight, \* audit inserts sent and not yet answered
  ma,         \* Dashboard: the handleManualAdd call
  relay,      \* a relay handler: the request in hand and its response
  dl,         \* processWorkbook's saveRecordSmart calls in flight, chunk by chunk
  hb,         \* App: the triggerAutoPull calls the heartbeat has in flight
  settings,   \* localStorage sheet_api_settings, as db.getSettings reads it
  held,       \* the settings each mounted component holds as React state
  nextLog     \* number of sync log entries appended so far

storeV == <<today, records>>
snapV == <<backups, nextBackup, cbs>>
ghostV == <<disturbed, hist>>
\* The callers of the sync pipeline.
orchV == <<sy, ap, hs>>
\* The read API's state.
apiV == <<apiKeys, req, auditLogs, auditInFlight>>
\* What the sync operations and the single-step writers leave alone.
offSync == <<rb, ck, apiV, orchV>>
\* The manual entry form and the relay.
sideV == <<ma, relay, dl, hb>>
\* The settings, sync log included.
logV == <<settings, held, nextLog>>
vars == <<today, records, backups, nextBackup, cbs, pw, disturbed, hist, rb, ck,
          sy, ap, hs, apiKeys, req, auditLogs, auditInFlight, ma, relay, dl, hb,
          settings, held, nextLog>>

\* ------------------------------------------------------- the store
\* The mutant of InsertRow: the table refuses a second row of the same day
\* and payload, as under a unique constraint.
InsertRowUnique(recs, ts, row) ==
  IF \E k \in 1..Len(recs) :
       recs[k].date = SplitT0(ts) /\ recs[k].raw_data = row
  THEN recs
  ELSE Append(recs, [date |-> SplitT0(ts), raw_data |-> row])

\* insert({date: ts.split('T')[0], raw_data: row}) into records.
InsertRow(recs, ts, row) ==
  Append(recs, [date |-> SplitT0(ts), raw_data |-> row])

\* The mutant of MatchingIds: the day is not part of the query.
MatchingIdsAnyDay(recs, ts, row) ==
  {k \in 1..Len(recs) : Contains(recs[k].raw_data, row)}

\* select id ... eq('date', ts.split('T')[0]).contains('raw_data', row).limit(1)
MatchingIds(recs, ts, row) ==
  {k \in 1..Len(recs) :
     recs[k].date = SplitT0(ts) /\ Contains(recs[k].raw_data, row)}

\* select * from records order by created_at desc.
GetRecordsRows(recs) == Reverse(recs)

\* One db.saveRecordSmart call: the row, the timestamp, where it stands
\* (its existence check, then its insert), what it returned, and whether
\* its existence check was answered without an error.
NewCall(ts, row) ==
  [row |-> row, date |-> ts, pc |-> "check", res |-> "NONE", checked |-> TRUE]

\* The mutant of AfterCheck: a duplicate is inserted all the same.
AfterCheckNoSkip(c, recs, ok) == [c EXCEPT !.pc = "insert"]

\* Lines 83-93: the existence check answers.  A failed query leaves data
\* null, which is no duplicate.
AfterCheck(c, recs, ok) ==
  IF ok /\ MatchingIds(recs, c.date, c.row) # {}
  THEN [c EXCEPT !.pc = "done", !.res = "SKIPPED"]
  ELSE [c EXCEPT !.pc = "insert", !.checked = ok]

\* The mutant of AfterInsert: the insert's error is not read.
AfterInsertUnread(c, ok) == [c EXCEPT !.pc = "done", !.res = "INSERTED"]

\* Lines 96-108: the insert answers.
AfterInsert(c, ok) ==
  [c EXCEPT !.pc = "done", !.res = IF ok THEN "INSERTED" ELSE "ERROR"]

\* ------------------------------------------------- processWorkbook
NoDataMsg == "The workbook contains no data in any sheets."

NoRun == [rows |-> <<>>, date |-> <<>>]

IdlePw ==
  [pc |-> "idle", allRows |-> <<>>, timestamp |-> <<>>,
   i |-> 0, calls |-> <<>>, results |-> <<>>, insertedCount |-> 0,
   ret |-> [count |-> 0, new |-> 0], err |-> "",
   startLen |-> 0, repeat |-> FALSE]

\* The operations of several steps that write the records table.
Ops == {"pw", "rb"}

\* Operation op writes the records table: every other operation's run
\* is disturbed.
Wrote(op) ==
  /\ disturbed' = disturbed \cup (Ops \ {op})
  /\ hist' = IF op = "pw" THEN hist ELSE NoRun

\* The mutant of ChunkAt: the chunk ends one row early.
ChunkAtShort(rows, i) == Slice(rows, i, i + chunkSize - 1)

\* Line 306: allRows.slice(i, i + chunkSize).
ChunkAt(rows, i) == Slice(rows, i, i + chunkSize)

\* chunk.map(row => db.saveRecordSmart({date: timestamp, raw_data: row}))
Dispatch(ts, chunk) == [k \in 1..Len(chunk) |-> NewCall(ts, chunk[k])]

\* The mutant of CountInserted: every decided row counts.
CountResolved(calls) ==
  Cardinality({k \in 1..Len(calls) : calls[k].pc = "done"})

\* results.filter(r => r === 'INSERTED').length
CountInserted(calls) ==
  Cardinality({k \in 1..Len(calls) : calls[k].res = "INSERTED"})

\* Lines 288-312: the rows of every tab; no row at all throws; else the
\* first chunk is dispatched.
PwStarted(wb) ==
  LET allRows == Flatten(wb)
      ts == ToISOString(today)
      base == [IdlePw EXCEPT !.allRows = allRows,
                             !.startLen = Len(records),
                             !.repeat = (hist = [rows |-> allRows,
                                                 date |-> SplitT0(ts)])]
  IN  IF Len(allRows) = 0
      THEN [base EXCEPT !.pc = "failed", !.err = NoDataMsg]
      ELSE [base EXCEPT !.pc = "chunk", !.timestamp = ts,
                        !.calls = Dispatch(ts, ChunkAt(allRows, 0))]

\* processWorkbook is called with a workbook.
PwBegin(wb) ==
  /\ pw.pc \in {"idle", "done", "failed"}
  /\ sy.pc \notin {"fetch", "pw"}
  /\ pw' = PwStarted(wb)
  /\ disturbed' = disturbed \ {"pw"}
  /\ UNCHANGED <<sideV, logV, storeV, snapV, hist, offSync>>

\* db.saveRecordSmart lines 83-93 for call k of the chunk in flight.
PwSmartCheck(k, ok) ==
  /\ pw.pc = "chunk"
  /\ k \in 1..Len(pw.calls)
  /\ pw.calls[k].pc = "check"
  /\ pw' = [pw EXCEPT !.calls[k] = AfterCheck(@, records, ok)]
  /\ UNCHANGED <<sideV, logV, storeV, snapV, ghostV, offSync>>

\* db.saveRecordSmart lines 96-108 for call k of the chunk in flight.
PwSmartInsert(k, ok) ==
  /\ pw.pc = "chunk"
  /\ k \in 1..Len(pw.calls)
  /\ pw.calls[k].pc = "insert"
  /\ pw' = [pw EXCEPT !.calls[k] = AfterInsert(@, ok)]
  /\ IF ok
     THEN records' = InsertRow(records, pw.calls[k].date, pw.calls[k].row) /\ Wrote("pw")
     ELSE UNCHANGED <<records, ghostV>>
  /\ UNCHANGED <<sideV, logV, today, snapV, offSync>>

\* Lines 314-320: Promise.all resolves; the next chunk is dispatched, or
\* the counts are returned.
PwResolve ==
  /\ pw.pc = "chunk"
  /\ \A k \in 1..Len(pw.calls) : pw.calls[k].pc = "done"
  /\ LET ins == pw.insertedCount + CountInserted(pw.calls)
         i2 == pw.i + chunkSize
         res == pw.results \o [k \in 1..Len(pw.calls) |-> pw.calls[k].res]
     IN  IF i2 < Len(pw.allRows)
         THEN /\ pw' = [pw EXCEPT !.insertedCount = ins, !.i = i2, !.results = res,
                          !.calls = Dispatch(pw.timestamp, ChunkAt(pw.allRows, i2))]
              /\ UNCHANGED hist
         ELSE /\ pw' = [pw EXCEPT !.insertedCount = ins, !.i = i2, !.results = res,
                          !.calls = <<>>, !.pc = "done",
                          !.ret = [count |-> Len(pw.allRows), new |-> ins]]
              /\ hist' = IF "pw" \in disturbed \/ "ERROR" \in {res[k] : k \in 1..Len(res)}
                         THEN NoRun
                         ELSE [rows |-> pw.allRows, date |-> SplitT0(pw.timestamp)]
  /\ UNCHANGED <<sideV, storeV, disturbed, rb, ck, apiV, ap, hs>>

\* The same, of a run whose caller is not followed.
PwChunkDone ==
  /\ sy.pc # "pw"
  /\ PwResolve
  /\ UNCHANGED <<snapV, sy, logV>>

\* ------------------------------------------------------ other writers
\* The mutant of SaveRecord: the row goes through the existence check of
\* db.saveRecordSmart first.
SaveRecordSmart(recs, ts, row) ==
  IF \E k \in 1..Len(recs) :
       recs[k].date = SplitT0(ts) /\ Contains(recs[k].raw_data, row)
  THEN recs
  ELSE Append(recs, [date |-> SplitT0(ts), raw_data |-> row])

\* db.saveRecord lines 66-77 when the insert succeeds.
SaveRecord(recs, ts, row) == InsertRow(recs, ts, row)

\* db.saveRecord lines 66-77, from handleManualAdd (Dashboard lines 87-99)
\* with a row that parsed.
ManualAdd(row, ok) ==
  /\ IF ok
     THEN records' = SaveRecord(records, ToISOString(today), row) /\ Wrote("manual")
     ELSE UNCHANGED <<records, ghostV>>
  /\ held' = [held EXCEPT !.dash = settings]
  /\ UNCHANGED <<sideV, settings, nextLog, today, snapV, pw, offSync>>

\* The text of the manual entry field, as its tokens: punctuation and
\* white space, and string literals.
Sym(s) == [quoted |-> FALSE, s |-> s]
Str(s) == [quoted |-> TRUE, s |-> s]

\* manualRow.trim() is empty.
TrimIsEmpty(text) == \A i \in 1..Len(text) : text[i] = Sym(" ")

SyntaxError == [ok |-> FALSE, value |-> {}]

RECURSIVE ParseMembers(_, _, _)
\* The members of an object from token i on: "key": "value", separated by
\* commas and closed by the brace that ends the text.  A repeated key
\* keeps its last value.
ParseMembers(t, i, obj) ==
  IF i + 3 > Len(t) \/ ~t[i].quoted \/ t[i + 1] # Sym(":") \/ ~t[i + 2].quoted
  THEN SyntaxError
  ELSE LET with == {p \in obj : p[1] # t[i].s} \cup {<<t[i].s, t[i + 2].s>>}
       IN  IF t[i + 3] = Sym("}")
           THEN IF i + 3 = Len(t) THEN [ok |-> TRUE, value |-> with] ELSE SyntaxError
           ELSE IF t[i + 3] = Sym(",") THEN ParseMembers(t, i + 4, with)
           ELSE SyntaxError

\* JSON.parse of the text of a flat object with string values; white
\* space between tokens is skipped.
ParseJSON(text) ==
  LET t == SelectSeq(text, LAMBDA x : x # Sym(" "))
  IN  IF Len(t) < 2 \/ t[1] # Sym("{") THEN SyntaxError
      ELSE IF t[2] = Sym("}")
           THEN IF Len(t) = 2 THEN [ok |-> TRUE, value |-> {}] ELSE SyntaxError
           ELSE ParseMembers(t, 2, {})

RecordedAlert == "Marathi row recorded!"
InvalidJSONAlert == "Invalid JSON format. Check brackets and quotes."

IdleMa == [pc |-> "idle", text |-> <<>>, date |-> <<>>, raw_data |-> {}, alert |-> ""]

\* Dashboard lines 87-92: a blank field returns at once; a text that does
\* not parse is answered by the alert of the catch; a text that parses is
\* handed to db.saveRecord with the time of the call.
MaBegin(text) ==
  /\ ma.pc = "idle"
  /\ ma' = IF TrimIsEmpty(text) THEN [IdleMa EXCEPT !.text = text]
           ELSE LET parsed == ParseJSON(text)
                IN  IF parsed.ok
                    THEN [pc |-> "insert", text |-> text, date |-> ToISOString(today),
                          raw_data |-> parsed.value, alert |-> ""]
                    ELSE [IdleMa EXCEPT !.text = text, !.alert = InvalidJSONAlert]
  /\ UNCHANGED <<relay, dl, hb, logV, storeV, snapV, pw, ghostV, offSync>>

\* db.saveRecord lines 68-76 and Dashboard lines 93-95: the insert
\* answers; an error is logged to the console only.  refreshState reads
\* the settings again (loadData line 37).
MaInsert(ok) ==
  /\ ma.pc = "insert"
  /\ IF ok
     THEN records' = SaveRecord(records, ma.date, ma.raw_data) /\ Wrote("manual")
     ELSE UNCHANGED <<records, ghostV>>
  /\ ma' = [ma EXCEPT !.pc = "idle", !.alert = RecordedAlert]
  /\ held' = [held EXCEPT !.dash = settings]
  /\ UNCHANGED <<relay, dl, hb, settings, nextLog, today, snapV, pw, offSync>>

\* db.clearRecords lines 111-120, from the Clear Feed button.
ClearRecords(ok) ==
  /\ IF ok
     THEN records' = <<>> /\ Wrote("clear")
     ELSE UNCHANGED <<records, ghostV>>
  /\ UNCHANGED <<sideV, logV, today, snapV, pw, offSync>>

\* Midnight (UTC) passes.
AdvanceDay ==
  /\ today + 1 \in Days
  /\ today' = today + 1
  /\ UNCHANGED <<sideV, logV, records, snapV, pw, ghostV, offSync>>

\* ------------------------------------------------------- settings
KeepLogs == 15       \* addSyncLog: slice(0, 15)

\* db.getSettings lines 157-164 with nothing stored.
DefaultSettings == [autoSync |-> TRUE, syncLogs |-> <<>>]

\* The entry db.addSyncLog stores: what the run reported, and the time of
\* the call as the number of the entry.
LogEntry(n, log) == [n |-> n, log |-> log]

\* db.addSyncLog lines 172-175 on the settings st it read.
AddSyncLog(st, entry) ==
  [st EXCEPT !.syncLogs = Take(<<entry>> \o st.syncLogs, KeepLogs)]

\* A run calls db.addSyncLog(log), after db.saveSettings({...saved}) when
\* it saves the settings it holds first (st is then what it saved), on the
\* stored settings otherwise.
WriteLog(st, log) ==
  /\ settings' = AddSyncLog(st, LogEntry(nextLog + 1, log))
  /\ nextLog' = nextLog + 1

\* A page load mounts the components: useState(db.getSettings()).
PageLoad ==
  /\ held' = [upload |-> settings, dash |-> settings]
  /\ UNCHANGED <<sideV, settings, nextLog, storeV, snapV, pw, ghostV, offSync>>

\* Upload lines 431-435: the Active checkbox saves the settings the
\* component holds with autoSync switched.
ToggleAutoSync ==
  /\ LET s == [held.upload EXCEPT !.autoSync = ~@]
     IN  /\ settings' = s
         /\ held' = [held EXCEPT !.upload = s]
  /\ UNCHANGED <<sideV, nextLog, storeV, snapV, pw, ghostV, offSync>>

\* Upload lines 464-468: Save Settings saves the settings the component
\* holds with the two input fields.
SaveSettingsButton ==
  /\ settings' = held.upload
  /\ UNCHANGED <<sideV, held, nextLog, storeV, snapV, pw, ghostV, offSync>>

\* ------------------------------------------------------- the relay
\* A body: its text in pieces, and the data rows XLSX.read makes of it.
NoBody == [chunks |-> <<>>, rows |-> <<>>]
ErrorBody(msg) == [chunks |-> <<"error", msg>>, rows |-> <<>>]

\* text.includes(marker).
Includes(body, marker) == \E i \in 1..Len(body.chunks) : body.chunks[i] = marker
\* text.includes('<!DOCTYPE html') || text.includes('<html').
HasHtmlMarker(body) == Includes(body, "<!DOCTYPE html") \/ Includes(body, "<html")

\* What fetch(url) gave: an exception, or a response.
Upstream(status, statusText, contentType, body) ==
  [threw |-> FALSE, status |-> status, statusText |-> statusText,
   contentType |-> contentType, body |-> body]
NoUpstream == Upstream(0, "", "", NoBody)
UpThrew == [NoUpstream EXCEPT !.threw = TRUE, !.statusText = "fetch failed"]
\* response.ok.
Ok(up) == ~up.threw /\ up.status \in 200..299

\* A response of a handler.
Answer(status, contentType, body) ==
  Upstream(status, "", contentType, body)

\* What a relay handler answers once its fetch is over: part_004 lines
\* 17-32 and api/proxy.ts lines 26-40.
RelayAnswer(handler, up) ==
  IF up.threw THEN Answer(500, "application/json", ErrorBody(up.statusText))
  ELSE IF ~Ok(up)
  THEN Answer(500, "application/json",
              ErrorBody(IF handler = "part_004"
                        THEN "Google returned " \o ToString(up.status)
                        ELSE "Upstream error: " \o up.statusText))
  ELSE IF handler = "part_004" /\ HasHtmlMarker(up.body)
  THEN Answer(500, "application/json",
              ErrorBody("Invalid Sheet Link (HTML returned). Make sure it is \"Published to Web\"."))
  ELSE Answer(200, "text/csv", up.body)

\* client is who waits for the answer: the sheet sync of Upload ("sy") or
\* another caller; up is what the handler's fetch gave.
IdleRelay ==
  [pc |-> "idle", handler |-> "none", client |-> "other", up |-> NoUpstream,
   response |-> NoUpstream]

\* part_004 lines 9-17 and api/proxy.ts lines 11-26: a request arrives.
\* OPTIONS is answered at once, and so is a body without url (500 by the
\* catch of part_004, 400 by api/proxy.ts); else the url is fetched.
RelayReceive(handler, method, url, client) ==
  /\ relay.pc = "idle" \/ (relay.pc = "responded" /\ relay.client # "sy")
  /\ client = "sy" => sy.pc = "fetch" /\ sy.kind = "sheet" /\ method = "POST" /\ url
  /\ relay' =
       IF method = "OPTIONS"
       THEN [IdleRelay EXCEPT !.pc = "responded", !.handler = handler, !.client = client,
                              !.response = Answer(200, "", NoBody)]
       ELSE IF ~url
       THEN [IdleRelay EXCEPT !.pc = "responded", !.handler = handler, !.client = client,
                              !.response = Answer(IF handler = "part_004" THEN 500 ELSE 400,
                                                  "application/json", ErrorBody("Missing URL"))]
       ELSE [IdleRelay EXCEPT !.pc = "fetch", !.handler = handler, !.client = client]
  /\ UNCHANGED <<ma, dl, hb, logV, storeV, snapV, pw, ghostV, offSync>>

\* part_004 lines 17-32 and api/proxy.ts lines 26-40: the fetch is over.
RelayFetched(up) ==
  /\ relay.pc = "fetch"
  /\ relay' = [relay EXCEPT !.pc = "responded", !.up = up,
                            !.response = RelayAnswer(relay.handler, up)]
  /\ UNCHANGED <<ma, dl, hb, logV, storeV, snapV, pw, ghostV, offSync>>

\* ------------------------------------------- the sync entry points
\* What a run reported: the entry handed to db.addSyncLog, with the
\* numbers its message carries.
NoLog == [status |-> "NONE", message |-> "", count |-> 0, new |-> 0]
Log(status, message, count, new) ==
  [status |-> status, message |-> message, count |-> count, new |-> new]

ProxyFailedMsg(status) == "Proxy failed: " \o ToString(status)
InvalidLinkMsg == "Invalid Link. Ensure Sheet is 'Published to Web' as CSV."
FetchFailedMsg(status) == "Fetch failed: " \o ToString(status)
NotPublishedMsg == "Sheet not 'Published to Web' as CSV."
DailyFailedMsg == "Daily pull failed. Check internet/permissions."
SyncFailedMsg == "Sync failed. Check 'Publish to Web' settings."
AutoFetchFailedMsg == "Auto-sync fetch failed."

\* Upload: status and errorMessage are the component's state, log the
\* entry it wrote, snaps the db.createBackup calls it made, empty whether
\* its workbook had no data row, settings the settings the running call
\* holds (the component's state when it was called), thrown the message
\* of the exception its catch block received, up what the sheet's URL
\* answered.  kind tells the sheet sync through the relay ("sheet"), the
\* sheet sync of the component's earlier copy, which fetches the URL
\* itself ("direct"), and the file upload ("file").
IdleSy ==
  [pc |-> "idle", kind |-> "none", status |-> "IDLE", errorMessage |-> "",
   log |-> NoLog, snaps |-> 0, empty |-> FALSE, settings |-> DefaultSettings,
   thrown |-> "", up |-> NoUpstream]

\* triggerAutoPull: the rows still to save, the db.saveRecordSmart call
\* in flight, and what the run did (wrote: the records it inserted).
IdleAp ==
  [pc |-> "idle", rows |-> <<>>, timestamp |-> <<>>, k |-> 0,
   call |-> NewCall(<<>>, {}), rowCount |-> 0,
   log |-> NoLog, snaps |-> 0, wrote |-> 0, empty |-> FALSE,
   settings |-> DefaultSettings, thrown |-> ""]

IdleHs ==
  [pc |-> "idle", rows |-> <<>>, ts |-> <<>>, k |-> 0, count |-> 0,
   log |-> NoLog, snaps |-> 0, wrote |-> 0, empty |-> FALSE,
   settings |-> DefaultSettings, thrown |-> ""]

\* App lines 40-48: the loop turns to row k, or is over: the settings are
\* saved, SUCCESS is logged and the call's locals are gone.
ApNext(a, k) ==
  IF k <= Len(a.rows)
  THEN [a EXCEPT !.pc = "row", !.k = k, !.call = NewCall(a.timestamp, a.rows[k])]
  ELSE [a EXCEPT !.pc = "done", !.k = 0, !.rows = <<>>, !.timestamp = <<>>,
                 !.call = IdleAp.call, !.settings = DefaultSettings,
                 !.log = Log("SUCCESS", "Daily Auto-Pull", 0, a.rowCount)]

\* Dashboard lines 64-75: the same for handleSync.
HsNext(h, k) ==
  IF k <= Len(h.rows)
  THEN [h EXCEPT !.pc = "row", !.k = k]
  ELSE [h EXCEPT !.pc = "done", !.k = 0, !.rows = <<>>, !.ts = <<>>,
                 !.settings = DefaultSettings,
                 !.log = Log("SUCCESS", "Pulled", h.count, 0)]

\* App lines 48-49: when the loop is over the settings read at line 22
\* are saved and SUCCESS is logged.
ApLogged ==
  IF ap'.pc = "done"
  THEN WriteLog(ap.settings, ap'.log) /\ UNCHANGED held
  ELSE UNCHANGED logV

\* Dashboard lines 74-77: when the loop is over the settings the call
\* holds are saved, SUCCESS is logged and refreshState reads the settings
\* again (loadData line 37; its store reads are taken as answered at once).
HsLogged ==
  IF hs'.pc = "done"
  THEN /\ WriteLog(hs.settings, hs'.log)
       /\ held' = [held EXCEPT !.dash = settings']
  ELSE UNCHANGED logV

\* What awaits db.createBackup goes on: syncGoogleSheet (Upload lines
\* 395-402) reads the settings again and sets SUCCESS, triggerAutoPull
\* (App line 38) starts its loop; handleSync and the buttons' handlers do
\* not wait for it.
CbResume(owner) ==
  /\ sy' = IF owner = "sy"
           THEN [sy EXCEPT !.pc = "done", !.status = "SUCCESS", !.settings = DefaultSettings]
           ELSE sy
  /\ ap' = IF owner = "ap" THEN ApNext(ap, 1) ELSE ap
  /\ IF owner = "sy" THEN held' = [held EXCEPT !.upload = settings] /\ UNCHANGED <<settings, nextLog>>
     ELSE IF owner = "ap" THEN ApLogged
     ELSE UNCHANGED logV
  /\ UNCHANGED hs

\* ------------------------------------------------- db.createBackup
\* JSON.stringify of the rows db.getRecords returned, and JSON.parse.
JSONStringify(rows) == <<"json", rows>>
JSONParse(text) == text[2]

\* Line 218: the call is made and db.getRecords awaited.
IssueBackup(owner) ==
  Append(cbs, [owner |-> owner, pc |-> "read", rows |-> <<>>])

RemoveAt(s, k) ==
  [j \in 1..(Len(s) - 1) |-> IF j < k THEN s[j] ELSE s[j + 1]]

\* The Create Snapshot and Create Recovery Point buttons.
ManualBackup ==
  /\ cbs' = IssueBackup("manual")
  /\ UNCHANGED <<sideV, logV, storeV, backups, nextBackup, pw, ghostV, offSync>>

\* Lines 45-63: the store answers db.getRecords; an error yields [].
CbRead(k, ok) ==
  /\ k \in 1..Len(cbs)
  /\ cbs[k].pc = "read"
  /\ cbs' = [cbs EXCEPT ![k].pc = "write",
                        ![k].rows = IF ok THEN GetRecordsRows(records) ELSE <<>>]
  /\ UNCHANGED <<sideV, logV, storeV, backups, nextBackup, pw, ghostV, offSync>>

\* Lines 222-227: the id is the number of the creation.
NewBackup(id, rows) ==
  [id |-> id, recordCount |-> Len(rows), data |-> JSONStringify(rows)]

\* The mutant of WithBackup: the new snapshot goes last.
WithBackupLast(bs, b) == Take(bs \o <<b>>, KeepBackups)

\* Line 228: [newBackup, ...backups].slice(0, 5).
WithBackup(bs, b) == Take(<<b>> \o bs, KeepBackups)

\* Lines 221-230: the snapshot is stored.
CbWrite(k) ==
  /\ k \in 1..Len(cbs)
  /\ cbs[k].pc = "write"
  /\ backups' = WithBackup(backups, NewBackup(nextBackup + 1, cbs[k].rows))
  /\ nextBackup' = nextBackup + 1
  /\ cbs' = RemoveAt(cbs, k)
  /\ UNCHANGED <<sideV, storeV, pw, ghostV, rb, ck, apiV>>
  /\ CbResume(cbs[k].owner)

\* ------------------------------------------------ db.restoreBackup
\* at and landed: where an interrupted call stood, and whether the
\* request it was awaiting still reached the store.
IdleRb ==
  [pc |-> "idle", id |-> 0, target |-> NewBackup(0, <<>>), rows |-> <<>>,
   i |-> 0, ret |-> FALSE, startLen |-> 0, at |-> "none", landed |-> FALSE]

\* The mutant of FindBackup: an id that matches nothing falls back to the
\* newest snapshot.
FindBackupOrNewest(bs, id) ==
  IF \E k \in 1..Len(bs) : bs[k].id = id
  THEN {k \in 1..Len(bs) : bs[k].id = id /\ \A j \in 1..(k - 1) : bs[j].id # id}
  ELSE {k \in 1..Len(bs) : k = 1}

\* backups.find(b => b.id === id): the first match, if any.
FindBackup(bs, id) == {k \in 1..Len(bs) : bs[k].id = id /\ \A j \in 1..(k - 1) : bs[j].id # id}

\* Lines 249-253: the rows of one insert.
RestoreRows(chunk) ==
  [k \in 1..Len(chunk) |->
     [date |-> SplitT0(chunk[k].date), raw_data |-> chunk[k].raw_data]]

\* Lines 234-239: no such snapshot returns false; else db.clearRecords
\* is awaited.
RbBegin(id) ==
  /\ rb.pc \in {"idle", "done", "interrupted"}
  /\ LET found == FindBackup(backups, id)
     IN  rb' = IF found = {}
               THEN [IdleRb EXCEPT !.pc = "done", !.id = id, !.ret = FALSE,
                                   !.startLen = Len(records)]
               ELSE [IdleRb EXCEPT !.pc = "clear", !.id = id,
                                   !.startLen = Len(records),
                                   !.target = backups[CHOOSE k \in found : TRUE]]
  /\ disturbed' = disturbed \ {"rb"}
  /\ UNCHANGED <<sideV, logV, storeV, snapV, pw, hist, ck, apiV, orchV>>

\* The mutant of AfterClear: the table is not emptied.
AfterClearKeep(recs, ok) == recs

\* Lines 114-119: delete every record; an error is only logged.
AfterClear(recs, ok) == IF ok THEN <<>> ELSE recs

\* Lines 239-247: the clear is answered; the snapshot is parsed and its
\* first chunk sent, or true returned for a snapshot without rows.
RbClear(ok) ==
  /\ rb.pc = "clear"
  /\ records' = AfterClear(records, ok)
  /\ IF ok THEN Wrote("rb") ELSE UNCHANGED ghostV
  /\ LET rows == JSONParse(rb.target.data)
     IN  rb' = IF 0 < Len(rows)
               THEN [rb EXCEPT !.pc = "insert", !.rows = rows, !.i = 0]
               ELSE [rb EXCEPT !.pc = "done", !.rows = rows, !.ret = TRUE]
  /\ UNCHANGED <<sideV, logV, today, snapV, pw, ck, apiV, orchV>>

\* Lines 246-257: the insert of one chunk is answered (an error is only
\* logged); the next chunk is sent, or true returned.
RbInsertChunk(ok) ==
  /\ rb.pc = "insert"
  /\ LET chunk == ChunkAt(rb.rows, rb.i)
         i2 == rb.i + chunkSize
     IN  /\ IF ok
            THEN records' = records \o RestoreRows(chunk) /\ Wrote("rb")
            ELSE UNCHANGED <<records, ghostV>>
         /\ rb' = IF i2 < Len(rb.rows)
                  THEN [rb EXCEPT !.i = i2]
                  ELSE [rb EXCEPT !.i = i2, !.pc = "done", !.ret = TRUE]
  /\ UNCHANGED <<sideV, logV, today, snapV, pw, ck, apiV, orchV>>

\* Dashboard line 311 (window.location.reload() right after the call,
\* which is not awaited) or a crash: the call never resumes.  The request
\* it was awaiting (the delete of lines 114-119, or the insert of a chunk)
\* had been sent, and reaches the store or not.
RbInterrupt(landed) ==
  /\ rb.pc \in {"clear", "insert"}
  /\ rb' = [rb EXCEPT !.pc = "interrupted", !.at = rb.pc, !.landed = landed]
  /\ IF landed
     THEN /\ records' = IF rb.pc = "clear"
                        THEN AfterClear(records, TRUE)
                        ELSE records \o RestoreRows(ChunkAt(rb.rows, rb.i))
          /\ Wrote("rb")
     ELSE UNCHANGED <<records, ghostV>>
  /\ UNCHANGED <<sideV, logV, today, snapV, pw, ck, apiV, orchV>>

\* ------------------------------- the chunk loop on a sheet of n rows
\* processWorkbook lines 296-320 with the decisions of a chunk taken as
\* one step: ins of its rows were INSERTED.
IdleCk ==
  [pc |-> "idle", n |-> 0, i |-> 0, chunks |-> <<>>, insertedCount |-> 0,
   ret |-> [count |-> 0, new |-> 0]]

\* The sheet's rows, by their number.
RowNumbers(n) == [k \in 1..n |-> k]

\* Lines 296-300.
CkBegin(n) ==
  /\ ck.pc \in {"idle", "done", "failed"}
  /\ ck' = [IdleCk EXCEPT !.pc = IF n = 0 THEN "failed" ELSE "loop", !.n = n]
  /\ UNCHANGED <<sideV, logV, storeV, snapV, pw, ghostV, rb, apiV, orchV>>

\* Lines 305-316: one turn of the loop.
CkChunk(ins) ==
  /\ ck.pc = "loop"
  /\ ck.i < ck.n
  /\ LET chunk == ChunkAt(RowNumbers(ck.n), ck.i)
     IN  /\ ins \in 0..Len(chunk)
         /\ ck' = [ck EXCEPT !.chunks = Append(@, Len(chunk)),
                             !.insertedCount = @ + ins,
                             !.i = @ + chunkSize]
  /\ UNCHANGED <<sideV, logV, storeV, snapV, pw, ghostV, rb, apiV, orchV>>

\* Lines 318-320: the loop is over.
CkReturn ==
  /\ ck.pc = "loop"
  /\ ~(ck.i < ck.n)
  /\ ck' = [ck EXCEPT !.pc = "done",
                      !.ret = [count |-> ck.n, new |-> ck.insertedCount]]
  /\ UNCHANGED <<sideV, logV, storeV, snapV, pw, ghostV, rb, apiV, orchV>>

\* processWorkbook lines 296-320 with every saveRecordSmart call of a
\* chunk followed until it resolves: flight[c] is the number of calls of
\* the c-th chunk that were issued and have not resolved yet.
IdleDl == [pc |-> "idle", n |-> 0, i |-> 0, flight |-> <<>>]

\* Line 309 with no await: the loop goes on while calls are pending.
AwaitedNone(d) == TRUE

\* Line 309, await Promise.all(promises): every call of the chunk that
\* was issued last has resolved.
Awaited(d) == d.flight[Len(d.flight)] = 0

\* Lines 296-308: the first chunk's calls are issued.
DlBegin(n) ==
  /\ dl.pc \in {"idle", "done", "failed"}
  /\ dl' = IF n = 0
           THEN [IdleDl EXCEPT !.pc = "failed"]
           ELSE [IdleDl EXCEPT !.pc = "await", !.n = n,
                   !.flight = <<Len(ChunkAt(RowNumbers(n), 0))>>]
  /\ UNCHANGED <<ma, relay, hb, logV, storeV, snapV, pw, ghostV, offSync>>

\* db.ts lines 81-109: a call of chunk c resolves, whatever its outcome.
DlResolve(c) ==
  /\ c \in 1..Len(dl.flight)
  /\ dl.flight[c] > 0
  /\ dl' = [dl EXCEPT !.flight[c] = @ - 1]
  /\ UNCHANGED <<ma, relay, hb, logV, storeV, snapV, pw, ghostV, offSync>>

\* Lines 305-320: after the await the loop issues the next chunk's calls,
\* or returns.
DlContinue ==
  /\ dl.pc = "await"
  /\ Awaited(dl)
  /\ LET i2 == dl.i + chunkSize
     IN  dl' = IF i2 < dl.n
               THEN [dl EXCEPT !.i = i2,
                       !.flight = Append(@, Len(ChunkAt(RowNumbers(dl.n), i2)))]
               ELSE [dl EXCEPT !.i = i2, !.pc = "done"]
  /\ UNCHANGED <<ma, relay, hb, logV, storeV, snapV, pw, ghostV, offSync>>

\* ------------------------------------- Upload: sync and file upload
\* Lines 323-361 (Sync with an input of 5 characters or more) and lines
\* 500-505 (a file is chosen): the source is asked for.
SyBegin(kind) ==
  /\ sy.pc \in {"idle", "done"}
  /\ pw.pc \in {"idle", "done", "failed"}
  /\ sy' = [IdleSy EXCEPT !.pc = "fetch", !.kind = kind, !.status = "LOADING",
                          !.settings = held.upload]
  /\ UNCHANGED <<sideV, logV, storeV, snapV, pw, ghostV, rb, ck, apiV, ap, hs>>

\* Lines 324-328: an input of fewer than 5 characters.
SyInvalidInput ==
  /\ sy.pc \in {"idle", "done"}
  /\ sy' = [IdleSy EXCEPT !.pc = "done", !.kind = "sheet", !.status = "ERROR",
                          !.errorMessage = "Invalid Input."]
  /\ UNCHANGED <<sideV, logV, storeV, snapV, pw, ghostV, rb, ck, apiV, ap, hs>>

\* The sheet syncs, as against the file upload.
SheetSyncs == {"sheet", "direct"}

\* The catch blocks: lines 400-405 and 118-123 (the sheet sync logs the
\* error) and lines 519-522 (the file upload does not).
SyCaught(kind, msg) ==
  [sy EXCEPT !.pc = "done", !.status = "ERROR", !.errorMessage = msg,
             !.settings = DefaultSettings, !.thrown = msg,
             !.log = IF kind \in SheetSyncs THEN Log("ERROR", msg, 0, 0) ELSE NoLog]

\* Lines 361-371: what syncGoogleSheet makes of the relay's answer, an
\* error or the workbook of one tab that XLSX.read makes of the CSV text.
ReadProxied(resp) ==
  IF resp.threw THEN [error |-> resp.statusText, wb |-> <<>>]
  ELSE IF ~Ok(resp) THEN [error |-> ProxyFailedMsg(resp.status), wb |-> <<>>]
  ELSE IF HasHtmlMarker(resp.body) THEN [error |-> InvalidLinkMsg, wb |-> <<>>]
  ELSE [error |-> "", wb |-> <<resp.body.rows>>]

\* contentType.includes('text/html').
HtmlTypes == {"text/html", "text/html; charset=utf-8"}

\* Lines 84-92 of the earlier copy: what its syncGoogleSheet makes of the
\* answer of the sheet's URL.
ReadDirect(resp) ==
  IF resp.threw THEN [error |-> resp.statusText, wb |-> <<>>]
  ELSE IF ~Ok(resp) THEN [error |-> FetchFailedMsg(resp.status), wb |-> <<>>]
  ELSE IF resp.contentType \in HtmlTypes THEN [error |-> NotPublishedMsg, wb |-> <<>>]
  ELSE [error |-> "", wb |-> <<resp.body.rows>>]

\* The source was read: an error goes to the catch block, and
\* processWorkbook starts on a workbook.
SyGot(read, up) ==
  /\ sy.pc = "fetch"
  /\ IF read.error = ""
     THEN /\ pw' = PwStarted(read.wb)
          /\ disturbed' = disturbed \ {"pw"}
          /\ sy' = IF pw'.pc = "failed"
                   THEN [SyCaught(sy.kind, pw'.err) EXCEPT !.empty = TRUE, !.up = up]
                   ELSE [sy EXCEPT !.pc = "pw", !.up = up]
     ELSE /\ sy' = [SyCaught(sy.kind, read.error) EXCEPT !.up = up]
          /\ UNCHANGED <<pw, disturbed>>
  /\ IF sy'.log # NoLog THEN WriteLog(settings, sy'.log) ELSE UNCHANGED <<settings, nextLog>>
  /\ UNCHANGED <<held, storeV, snapV, hist, rb, ck, apiV, ap, hs>>

\* Lines 355-373: the relay answers the sheet sync, with any answer a
\* relay can give.
SyFetched(resp) ==
  /\ sy.kind = "sheet"
  /\ SyGot(ReadProxied(resp), NoUpstream)
  /\ UNCHANGED sideV

\* Lines 355-373: the relay handler's answer reaches the sheet sync.
SyProxied ==
  /\ sy.kind = "sheet"
  /\ relay.pc = "responded" /\ relay.client = "sy"
  /\ SyGot(ReadProxied(relay.response), relay.up)
  /\ relay' = IdleRelay
  /\ UNCHANGED <<ma, dl, hb>>

\* Lines 84-93 of the earlier copy: the sheet's URL answers.
SyFetchedDirect(up) ==
  /\ sy.kind = "direct"
  /\ SyGot(ReadDirect(up), up)
  /\ UNCHANGED sideV

\* Lines 505-508: the chosen file is read.
SyFileRead(wb) ==
  /\ sy.kind = "file"
  /\ SyGot([error |-> "", wb |-> wb], NoUpstream)
  /\ UNCHANGED sideV

\* processWorkbook's last chunk resolves and its caller goes on: lines
\* 379-394 (the settings the call holds saved, SUCCESS logged,
\* db.createBackup awaited) and lines 509-518 (SUCCESS logged, the page
\* loaded again).
SyChunkDone ==
  /\ sy.pc = "pw"
  /\ PwResolve
  /\ IF pw'.pc = "done"
     THEN IF sy.kind \in SheetSyncs
          THEN /\ sy' = [sy EXCEPT !.pc = "backup", !.snaps = @ + 1,
                           !.log = Log("SUCCESS", "Synced", pw'.ret.count, pw'.ret.new)]
               /\ cbs' = IssueBackup("sy")
               /\ WriteLog(sy.settings, sy'.log)
               /\ UNCHANGED held
          ELSE /\ sy' = [sy EXCEPT !.pc = "done", !.status = "SUCCESS",
                           !.settings = DefaultSettings,
                           !.log = Log("SUCCESS", "Manual Upload", 0, pw'.ret.new)]
               /\ UNCHANGED cbs
               /\ WriteLog(settings, sy'.log)
               /\ held' = [upload |-> settings', dash |-> settings']
     ELSE UNCHANGED <<sy, cbs, logV>>
  /\ UNCHANGED <<backups, nextBackup>>

\* ------------------------------------------- App: triggerAutoPull
\* Lines 21-28: a sheet id is set and autoSync is on; the sheet is asked
\* for.
ApBegin ==
  /\ ap.pc \in {"idle", "done"}
  /\ settings.autoSync
  /\ ap' = [IdleAp EXCEPT !.pc = "fetch", !.settings = settings]
  /\ UNCHANGED <<sideV, logV, storeV, snapV, pw, ghostV, rb, ck, apiV, sy, hs>>

\* Lines 28-38 and 49-51: a failed fetch throws (line 29) and the catch
\* logs its own message; else the workbook is
\* read and db.createBackup awaited.
ApFetched(ok, wb) ==
  /\ ap.pc = "fetch"
  /\ IF ok
     THEN /\ ap' = [ap EXCEPT !.pc = "backup", !.rows = Flatten(wb),
                              !.timestamp = ToISOString(today),
                              !.empty = (Flatten(wb) = <<>>), !.snaps = @ + 1]
          /\ cbs' = IssueBackup("ap")
     ELSE /\ ap' = [ap EXCEPT !.pc = "done", !.settings = DefaultSettings,
                              !.thrown = AutoFetchFailedMsg,
                              !.log = Log("ERROR", DailyFailedMsg, 0, 0)]
          /\ UNCHANGED cbs
  /\ IF ok THEN UNCHANGED logV ELSE WriteLog(settings, ap'.log) /\ UNCHANGED held
  /\ UNCHANGED <<sideV, storeV, backups, nextBackup, pw, ghostV, rb, ck, apiV, sy, hs>>

\* Line 43, db.saveRecordSmart lines 83-93: the existence check of the
\* row answers.
ApSmartCheck(ok) ==
  /\ ap.pc = "row"
  /\ ap.call.pc = "check"
  /\ LET c == AfterCheck(ap.call, records, ok)
     IN  ap' = IF c.pc = "done"
               THEN ApNext([ap EXCEPT !.call = c], ap.k + 1)
               ELSE [ap EXCEPT !.call = c]
  /\ ApLogged
  /\ UNCHANGED <<sideV, storeV, snapV, pw, ghostV, rb, ck, apiV, sy, hs>>

\* Lines 43-44, db.saveRecordSmart lines 96-108: the insert of the row
\* answers.
ApSmartInsert(ok) ==
  /\ ap.pc = "row"
  /\ ap.call.pc = "insert"
  /\ LET c == AfterInsert(ap.call, ok)
         n == IF c.res = "INSERTED" THEN 1 ELSE 0
     IN  ap' = ApNext([ap EXCEPT !.call = c, !.rowCount = @ + n, !.wrote = @ + n],
                      ap.k + 1)
  /\ IF ok
     THEN records' = InsertRow(records, ap.call.date, ap.call.row) /\ Wrote("ap")
     ELSE UNCHANGED <<records, ghostV>>
  /\ ApLogged
  /\ UNCHANGED <<sideV, today, snapV, pw, rb, ck, apiV, sy, hs>>

\* ------------------------------------------- App: the heartbeat
\* monitorSchedule and the triggerAutoPull calls it started, each followed
\* from await to await (what a pull writes is ApFetched to ApSmartInsert
\* above), with the lastScheduledSyncDate of the stored settings.
IdleHb == [pulls |-> <<>>, lastScheduledSyncDate |-> <<>>]

\* Lines 57-71, on mount and every 60000 ms (lines 73-76): the target
\* time has passed and today's pull is not recorded, so triggerAutoPull
\* is called (lines 21-28) and not awaited.
MonitorSchedule ==
  /\ settings.autoSync
  /\ hb.lastScheduledSyncDate # SplitT0(ToISOString(today))
  /\ hb' = [hb EXCEPT !.pulls = Append(@, [pc |-> "fetch", todayStr |-> <<>>])]
  /\ UNCHANGED <<ma, relay, dl, logV, storeV, snapV, pw, ghostV, offSync>>

\* Lines 28-38 and 50-54: the fetch of pull k answers and db.createBackup
\* is called; a failure ends the pull in its catch block.
PullFetched(k, ok) ==
  /\ k \in 1..Len(hb.pulls)
  /\ hb.pulls[k].pc = "fetch"
  /\ hb' = IF ok
           THEN [hb EXCEPT !.pulls[k] = [pc |-> "backup",
                                         todayStr |-> SplitT0(ToISOString(today))]]
           ELSE [hb EXCEPT !.pulls = RemoveAt(@, k)]
  /\ UNCHANGED <<ma, relay, dl, logV, storeV, snapV, pw, ghostV, offSync>>

\* Lines 38-43: db.createBackup resolves and the loop over the rows
\* begins.
PullBackedUp(k) ==
  /\ k \in 1..Len(hb.pulls)
  /\ hb.pulls[k].pc = "backup"
  /\ hb' = [hb EXCEPT !.pulls[k].pc = "rows"]
  /\ UNCHANGED <<ma, relay, dl, logV, storeV, snapV, pw, ghostV, offSync>>

\* Lines 40-54: the rows of pull k are done; line 48 saves
\* lastScheduledSyncDate, and an exception on the way skips it.
PullDone(k, ok) ==
  /\ k \in 1..Len(hb.pulls)
  /\ hb.pulls[k].pc = "rows"
  /\ hb' = [pulls |-> RemoveAt(hb.pulls, k),
            lastScheduledSyncDate |->
              IF ok THEN hb.pulls[k].todayStr ELSE hb.lastScheduledSyncDate]
  /\ UNCHANGED <<ma, relay, dl, logV, storeV, snapV, pw, ghostV, offSync>>

\* ---------------------------------------------- Dashboard: handleSync
\* Lines 47-53: a sheet id is given; the sheet is asked for.
HsBegin ==
  /\ hs.pc \in {"idle", "done"}
  /\ hs' = [IdleHs EXCEPT !.pc = "fetch", !.settings = held.dash]
  /\ UNCHANGED <<sideV, logV, storeV, snapV, pw, ghostV, rb, ck, apiV, sy, ap>>

\* Lines 53-66 and 79-81: a failed fetch is logged; else the workbook is
\* read, db.createBackup called and not awaited, and the first row sent.
HsFetched(ok, wb) ==
  /\ hs.pc = "fetch"
  /\ IF ok
     THEN /\ hs' = HsNext([hs EXCEPT !.rows = Flatten(wb), !.ts = ToISOString(today),
                                     !.empty = (Flatten(wb) = <<>>), !.snaps = @ + 1],
                          1)
          /\ cbs' = IssueBackup("hs")
     ELSE /\ hs' = [hs EXCEPT !.pc = "done", !.settings = DefaultSettings,
                              !.thrown = SyncFailedMsg,
                              !.log = Log("ERROR", SyncFailedMsg, 0, 0)]
          /\ UNCHANGED cbs
  /\ IF ok THEN HsLogged ELSE WriteLog(settings, hs'.log) /\ UNCHANGED held
  /\ UNCHANGED <<sideV, storeV, backups, nextBackup, pw, ghostV, rb, ck, apiV, sy, ap>>

\* Lines 67-70, db.saveRecord lines 66-77: the insert of the row answers;
\* an error is only logged to the console, and the row is counted.
HsSaveRecord(ok) ==
  /\ hs.pc = "row"
  /\ hs' = HsNext([hs EXCEPT !.count = @ + 1, !.wrote = @ + (IF ok THEN 1 ELSE 0)],
                  hs.k + 1)
  /\ IF ok
     THEN records' = InsertRow(records, hs.ts, hs.rows[hs.k]) /\ Wrote("hs")
     ELSE UNCHANGED <<records, ghostV>>
  /\ HsLogged
  /\ UNCHANGED <<sideV, today, snapV, pw, rb, ck, apiV, sy, ap>>

\* ------------------------------------------------ the API keys
\* The mutant of WithNewKey: the keys generated before are revoked.
WithNewKeyRevoking(keys, value) ==
  Append([k \in 1..Len(keys) |-> [keys[k] EXCEPT !.is_active = FALSE]],
         [key_value |-> value, owner_name |-> "Admin Generated", is_active |-> TRUE])

\* Lines 140-146: the insert into api_keys.
WithNewKey(keys, value) ==
  Append(keys, [key_value |-> value, owner_name |-> "Admin Generated",
                is_active |-> TRUE])

\* db.generateApiKey lines 135-150: a fresh random key is inserted as an
\* active key of 'Admin Generated'; an insert error is only logged.
GenerateApiKey(value, ok) ==
  /\ \A k \in 1..Len(apiKeys) : apiKeys[k].key_value # value
  /\ apiKeys' = IF ok THEN WithNewKey(apiKeys, value) ELSE apiKeys
  /\ UNCHANGED <<sideV, logV, storeV, snapV, pw, ghostV, rb, ck, orchV, req, auditLogs, auditInFlight>>

\* Column is_active of api_keys (schema line 100) is set in the store by
\* its operator: no code of the application writes it.
SetKeyActive(k, active) ==
  /\ k \in 1..Len(apiKeys)
  /\ apiKeys[k].is_active # active
  /\ apiKeys' = [apiKeys EXCEPT ![k].is_active = active]
  /\ UNCHANGED <<sideV, logV, storeV, snapV, pw, ghostV, rb, ck, orchV, req, auditLogs, auditInFlight>>

\* ------------------------------------------- GET /api/v1/data handler
\* process.env.VITE_SUPABASE_URL and VITE_SUPABASE_ANON_KEY of the
\* deployment.
supabaseUrl == "https://project.supabase.co"
supabaseKey == "anon-key"

RECURSIVE SplitSpace(_, _)
\* header.split(' ') on a header given as its words and the spaces between
\* them; cur is the part being read.
SplitSpace(s, cur) ==
  IF s = <<>> THEN <<cur>>
  ELSE IF Head(s) = " " THEN <<cur>> \o SplitSpace(Tail(s), "")
  ELSE SplitSpace(Tail(s), Head(s))

\* Lines 27-33: the apiKey query parameter, else the token of a header
\* 'Bearer <token>'; "" stands for undefined.
ExtractApiKey(query, authorization) ==
  IF query # "" THEN query
  ELSE IF authorization # <<>>
       THEN LET parts == SplitSpace(authorization, "")
            IN  IF Len(parts) = 2 /\ parts[1] = "Bearer" THEN parts[2] ELSE ""
       ELSE ""

\* The mutant of ActiveKeyRows: is_active is not part of the query.
AnyKeyRows(keys, apiKey) ==
  {k \in 1..Len(keys) : keys[k].key_value = apiKey}

\* Lines 40-44: select ... eq('key_value', apiKey).eq('is_active', true).
ActiveKeyRows(keys, apiKey) ==
  {k \in 1..Len(keys) : keys[k].key_value = apiKey /\ keys[k].is_active}

\* The mutant of QueryRecords: oldest first.
QueryRecordsAsc(recs, dateFilter) ==
  LET ids == IF dateFilter = <<>> THEN 1..Len(recs)
             ELSE {k \in 1..Len(recs) : recs[k].date = dateFilter}
      RECURSIVE Asc(_)
      Asc(k) == IF k > Len(recs) THEN <<>>
                ELSE (IF k \in ids THEN <<k>> ELSE <<>>) \o Asc(k + 1)
  IN  Asc(1)

\* Lines 85-92: the records, newest first, of one day if a date is given
\* (<<>> stands for no date parameter).
QueryRecords(recs, dateFilter) ==
  LET ids == IF dateFilter = <<>> THEN 1..Len(recs)
             ELSE {k \in 1..Len(recs) : recs[k].date = dateFilter}
      RECURSIVE Desc(_)
      Desc(k) == IF k = 0 THEN <<>>
                 ELSE (IF k \in ids THEN <<k>> ELSE <<>>) \o Desc(k - 1)
  IN  Desc(Len(recs))

\* Lines 105-109: {id, date, ...raw_data}: a key of raw_data replaces an
\* equal key before it.
CleanRow(recs, k) ==
  LET own == {p[1] : p \in recs[k].raw_data}
      head == {<<"id", ToString(k)>>, <<"date", recs[k].date>>}
  IN  {p \in head : p[1] \notin own} \cup recs[k].raw_data

Unauthorized == [error |-> "Unauthorized: Missing API Key"]
Forbidden == [error |-> "Forbidden: Invalid or inactive API Key"]
ConfigError == [error |-> "Server configuration error: Missing DB credentials."]
DatabaseError == [error |-> "Database error fetching records"]

\* A request: its method, its apiKey and date query parameters, its
\* Authorization header; then the handler's locals and its response.
\* activeAtLookup is the set of key values that were active when the key
\* was looked up, storeFailed whether a store call the handler awaited
\* failed, audits the number of audit inserts it sent.
IdleReq ==
  [pc |-> "idle", method |-> "GET", query |-> "", authorization |-> <<>>,
   date |-> <<>>, apiKey |-> "", owner_name |-> "", activeAtLookup |-> {},
   storeFailed |-> FALSE, audits |-> 0,
   status |-> 0, body |-> [error |-> ""]]

Responded(r, status, body) ==
  [r EXCEPT !.pc = "responded", !.status = status, !.body = body]

\* Lines 10-37: a request arrives; OPTIONS is answered 200, a missing
\* configuration 500, a missing API key 401; else the key is looked up.
ApiReceive(method, query, authorization, date) ==
  /\ req.pc \in {"idle", "responded"}
  /\ LET r == [IdleReq EXCEPT !.method = method, !.query = query,
                              !.authorization = authorization, !.date = date]
         apiKey == ExtractApiKey(query, authorization)
     IN  req' = IF method = "OPTIONS" THEN Responded(r, 200, [end |-> TRUE])
                ELSE IF supabaseUrl = "" \/ supabaseKey = ""
                     THEN Responded(r, 500, ConfigError)
                ELSE IF apiKey = "" THEN Responded(r, 401, Unauthorized)
                ELSE [r EXCEPT !.pc = "lookup", !.apiKey = apiKey]
  /\ UNCHANGED <<sideV, logV, storeV, snapV, pw, ghostV, rb, ck, orchV, apiKeys, auditLogs, auditInFlight>>

\* The mutant of SubmitAudit: nothing is sent.
SubmitNoAudit(inFlight, owner) == inFlight

\* Lines 52-56: supabase.from('audit_logs').insert({action: 'API_PULL',
\* ...}) is sent and not awaited.
SubmitAudit(inFlight, owner) == Append(inFlight, owner)

\* Lines 40-56: the lookup answers; single() is an error unless exactly one
\* row matches.  No key is 403; else the audit insert is sent, not awaited,
\* and the records are asked for.
ApiKeyLookup(ok) ==
  /\ req.pc = "lookup"
  /\ LET rows == ActiveKeyRows(apiKeys, req.apiKey)
         seen == [req EXCEPT !.storeFailed = ~ok, !.activeAtLookup =
                    {apiKeys[k].key_value : k \in {j \in 1..Len(apiKeys) : apiKeys[j].is_active}}]
     IN  IF ok /\ Cardinality(rows) = 1
         THEN LET keyData == apiKeys[CHOOSE k \in rows : TRUE]
              IN  /\ auditInFlight' = SubmitAudit(auditInFlight, keyData.owner_name)
                  /\ req' = [seen EXCEPT !.pc = "query", !.owner_name = keyData.owner_name,
                                         !.audits = Len(auditInFlight') - Len(auditInFlight)]
         ELSE /\ req' = Responded(seen, 403, Forbidden)
              /\ UNCHANGED auditInFlight
  /\ UNCHANGED <<sideV, logV, storeV, snapV, pw, ghostV, rb, ck, orchV, apiKeys, auditLogs>>

\* Lines 94-110: the records query answers: an error is 500; else the
\* rows are returned.
ApiRecords(ok) ==
  /\ req.pc = "query"
  /\ LET ids == QueryRecords(records, req.date)
     IN  req' = IF ok
                THEN Responded(req, 200,
                       [status |-> "success", requester |-> req.owner_name,
                        count |-> Len(ids),
                        data |-> [j \in 1..Len(ids) |-> CleanRow(records, ids[j])]])
                ELSE Responded([req EXCEPT !.storeFailed = TRUE], 500, DatabaseError)
  /\ UNCHANGED <<sideV, logV, storeV, snapV, pw, ghostV, rb, ck, orchV, apiKeys, auditLogs, auditInFlight>>

\* Lines 52-56: the audit insert is answered; a failure goes unnoticed.
AuditInsert(ok) ==
  /\ auditInFlight # <<>>
  /\ auditInFlight' = Tail(auditInFlight)
  /\ auditLogs' = IF ok THEN Append(auditLogs, Head(auditInFlight)) ELSE auditLogs
  /\ UNCHANGED <<sideV, logV, storeV, snapV, pw, ghostV, rb, ck, orchV, apiKeys, req>>

\* ---------------------------------------------------- specification
Init ==
  /\ today = 1
  /\ records = <<>>
  /\ backups = <<>>
  /\ nextBackup = 0
  /\ cbs = <<>>
  /\ pw = IdlePw
  /\ disturbed = {}
  /\ hist = NoRun
  /\ rb = IdleRb
  /\ ck = IdleCk
  /\ sy = IdleSy
  /\ ap = IdleAp
  /\ hs = IdleHs
  /\ apiKeys = <<>>
  /\ req = IdleReq
  /\ auditLogs = <<>>
  /\ auditInFlight = <<>>
  /\ ma = IdleMa
  /\ relay = IdleRelay
  /\ dl = IdleDl
  /\ hb = IdleHb
  /\ settings = DefaultSettings
  /\ held = [upload |-> DefaultSettings, dash |-> DefaultSettings]
  /\ nextLog = 0

HasRoom == Len(records) < MaxRecords

\* The smart sync alone.
NextSmart ==
  \/ \E tab \in Tabs : PwBegin(<<tab>>)
  \/ \E k \in 1..MaxRows : PwSmartCheck(k, TRUE)
  \/ \E k \in 1..MaxRows : HasRoom /\ PwSmartInsert(k, TRUE)
  \/ PwChunkDone
  \/ AdvanceDay

SmartSpec == Init /\ [][NextSmart]_vars

\* The smart sync, manual entries and the Clear Feed button.
Next ==
  \/ \E tab \in Tabs : PwBegin(<<tab>>)
  \/ \E k \in 1..MaxRows : PwSmartCheck(k, TRUE)
  \/ \E k \in 1..MaxRows : HasRoom /\ PwSmartInsert(k, TRUE)
  \/ PwChunkDone
  \/ AdvanceDay
  \/ \E row \in Payloads : HasRoom /\ ManualAdd(row, TRUE)
  \/ ClearRecords(TRUE)

Spec == Init /\ [][Next]_vars

\* The same within one day, with store calls that may fail.
NextFault ==
  \/ \E tab \in Tabs : PwBegin(<<tab>>)
  \/ \E k \in 1..MaxRows, ok \in BOOLEAN : PwSmartCheck(k, ok)
  \/ \E k \in 1..MaxRows, ok \in BOOLEAN : HasRoom /\ PwSmartInsert(k, ok)
  \/ PwChunkDone
  \/ \E row \in Payloads, ok \in BOOLEAN : HasRoom /\ ManualAdd(row, ok)
  \/ \E ok \in BOOLEAN : ClearRecords(ok)

FaultSpec == Init /\ [][NextFault]_vars

\* The chunk loop on sheets of up to MaxSheet rows.
NextChunk ==
  \/ \E n \in 0..MaxSheet : CkBegin(n)
  \/ \E ins \in 0..chunkSize : CkChunk(ins)
  \/ CkReturn

ChunkSpec == Init /\ [][NextChunk]_vars

\* The chunk loop with its calls in flight, on sheets of up to MaxSheet rows.
NextDispatch ==
  \/ \E n \in 0..MaxSheet : DlBegin(n)
  \/ \E c \in 1..(MaxSheet \div chunkSize + 1) : DlResolve(c)
  \/ DlContinue

DispatchSpec == Init /\ [][NextDispatch]_vars

SnapRoom(max) == nextBackup + Len(cbs) < max

\* Snapshots taken while manual entries arrive.
NextRetention ==
  \/ SnapRoom(MaxCreates) /\ Len(cbs) < MaxPending /\ ManualBackup
  \/ \E k \in 1..MaxPending : CbRead(k, TRUE)
  \/ \E k \in 1..MaxPending : CbWrite(k)
  \/ HasRoom /\ ManualAdd(RowA, TRUE)

RetentionSpec == Init /\ [][NextRetention]_vars

\* Snapshots, restores, manual entries and the Clear Feed button.
NextRestore ==
  \/ SnapRoom(MaxSnaps) /\ cbs = <<>> /\ ManualBackup
  \/ CbRead(1, TRUE)
  \/ CbWrite(1)
  \/ \E id \in 1..(MaxSnaps + 1) : RbBegin(id)
  \/ RbClear(TRUE)
  \/ RbInsertChunk(TRUE)
  \/ \E row \in Payloads : HasRoom /\ ManualAdd(row, TRUE)
  \/ ClearRecords(TRUE)

RestoreSpec == Init /\ [][NextRestore]_vars

\* A store of up to MaxRestore records is built, a snapshot of it taken,
\* and restores of it run, to their end or interrupted.
NextInterrupt ==
  \/ (Len(records) < MaxRestore /\ nextBackup = 0 /\ cbs = <<>>) /\ ManualAdd(RowA, TRUE)
  \/ SnapRoom(MaxSnaps) /\ cbs = <<>> /\ ManualBackup
  \/ CbRead(1, TRUE)
  \/ CbWrite(1)
  \/ \E id \in 1..MaxSnaps : RbBegin(id)
  \/ RbClear(TRUE)
  \/ RbInsertChunk(TRUE)
  \/ \E landed \in BOOLEAN : RbInterrupt(landed)

InterruptSpec == Init /\ [][NextInterrupt]_vars

\* What the URL of a sheet may answer: its CSV text, the HTML page of a
\* sheet that is not published, an error status, no answer.
CsvBody(tab) == [chunks |-> <<"Name,Amt">>, rows |-> tab]
HtmlPage == [chunks |-> <<"<!DOCTYPE html", "<html">>, rows |-> <<>>]
HtmlBare == [chunks |-> <<"<html">>, rows |-> <<>>]
Upstreams ==
  {Upstream(200, "OK", "text/csv", CsvBody(tab)) : tab \in SeqsUpTo(Payloads, MaxSyncRows)}
    \cup {Upstream(200, "OK", "text/html; charset=utf-8", HtmlPage),
          Upstream(200, "OK", "text/html", HtmlBare),
          Upstream(404, "Not Found", "text/html", HtmlBare),
          UpThrew}
\* What a relay may answer to the sheet sync.
ProxyAnswers ==
  {RelayAnswer(handler, up) : handler \in {"part_004", "proxy.ts"}, up \in Upstreams}

\* The sync entry points: the Upload component's sync and file upload,
\* the scheduled pull and the Dashboard's sync.
Resting == {"idle", "done"}
\* No entry point is running.
Quiet == sy.pc \in Resting /\ ap.pc \in Resting /\ hs.pc \in Resting
\* A run may start: none is running and the log has room.
MayStart == Quiet /\ nextLog < MaxLogs

NextOrch ==
  \/ \E kind \in {"sheet", "file"} : MayStart /\ SyBegin(kind)
  \/ Quiet /\ SyInvalidInput
  \/ \E resp \in ProxyAnswers : SyFetched(resp)
  \/ \E wb \in Workbooks(MaxSyncRows) : SyFileRead(wb)
  \/ \E k \in 1..MaxRows : PwSmartCheck(k, TRUE)
  \/ \E k \in 1..MaxRows : HasRoom /\ PwSmartInsert(k, TRUE)
  \/ (sy.kind = "sheet" => SnapRoom(MaxSyncSnaps)) /\ SyChunkDone
  \/ MayStart /\ ApBegin
  \/ \E ok \in BOOLEAN, wb \in Workbooks(MaxSyncRows) : SnapRoom(MaxSyncSnaps) /\ ApFetched(ok, wb)
  \/ ApSmartCheck(TRUE)
  \/ HasRoom /\ ApSmartInsert(TRUE)
  \/ MayStart /\ HsBegin
  \/ \E ok \in BOOLEAN, wb \in Workbooks(MaxSyncRows) : SnapRoom(MaxSyncSnaps) /\ HsFetched(ok, wb)
  \/ HasRoom /\ HsSaveRecord(TRUE)
  \/ \E k \in 1..MaxPending : CbRead(k, TRUE)
  \/ \E k \in 1..MaxPending : CbWrite(k)

OrchSpec == Init /\ [][NextOrch]_vars

\* The sheet sync of Upload through either relay handler, the sheet sync
\* of its earlier copy, and other callers of the relay.
NextFetch ==
  \/ \E kind \in SheetSyncs : MayStart /\ SyBegin(kind)
  \/ \E handler \in {"part_004", "proxy.ts"}, method \in {"OPTIONS", "POST"},
        url \in BOOLEAN, client \in {"sy", "other"} :
       RelayReceive(handler, method, url, client)
  \/ \E up \in Upstreams : RelayFetched(up)
  \/ SyProxied
  \/ \E up \in Upstreams : SyFetchedDirect(up)
  \/ \E k \in 1..MaxRows : PwSmartCheck(k, TRUE)
  \/ \E k \in 1..MaxRows : HasRoom /\ PwSmartInsert(k, TRUE)
  \/ SnapRoom(MaxSyncSnaps) /\ SyChunkDone
  \/ \E k \in 1..MaxPending : CbRead(k, TRUE)
  \/ \E k \in 1..MaxPending : CbWrite(k)
FetchSpec == Init /\ [][NextFetch]_vars

\* The Upload component's sheet sync on sheets of up to MaxRows rows, with
\* store calls that may fail.
NextBestEffort ==
  \/ MayStart /\ SnapRoom(MaxSnaps) /\ SyBegin("sheet")
  \/ \E tab \in Tabs :
       SyFetched(RelayAnswer("proxy.ts", Upstream(200, "OK", "text/csv", CsvBody(tab))))
  \/ \E k \in 1..MaxRows, ok \in BOOLEAN : PwSmartCheck(k, ok)
  \/ \E k \in 1..MaxRows, ok \in BOOLEAN : HasRoom /\ PwSmartInsert(k, ok)
  \/ SyChunkDone
  \/ CbRead(1, TRUE)
  \/ CbWrite(1)

BestEffortSpec == Init /\ [][NextBestEffort]_vars

\* One processWorkbook run with scheduled pulls at the same time.
NextRace ==
  \/ \E tab \in SeqsUpTo(Payloads, MaxSyncRows) : pw.pc = "idle" /\ PwBegin(<<tab>>)
  \/ \E k \in 1..MaxRows : PwSmartCheck(k, TRUE)
  \/ \E k \in 1..MaxRows : HasRoom /\ PwSmartInsert(k, TRUE)
  \/ PwChunkDone
  \/ nextLog < MaxSnaps /\ ApBegin
  \/ \E tab \in SeqsUpTo(Payloads, MaxSyncRows) : SnapRoom(MaxSyncSnaps) /\ ApFetched(TRUE, <<tab>>)
  \/ CbRead(1, TRUE)
  \/ CbWrite(1)
  \/ ApSmartCheck(TRUE)
  \/ HasRoom /\ ApSmartInsert(TRUE)

RaceSpec == Init /\ [][NextRace]_vars

\* The heartbeat with pulls of any duration, over midnight, with the
\* Active checkbox.
NextHeartbeat ==
  \/ Len(hb.pulls) < MaxPulls /\ MonitorSchedule
  \/ \E k \in 1..MaxPulls, ok \in BOOLEAN : PullFetched(k, ok)
  \/ \E k \in 1..MaxPulls : PullBackedUp(k)
  \/ \E k \in 1..MaxPulls, ok \in BOOLEAN : PullDone(k, ok)
  \/ AdvanceDay
  \/ ToggleAutoSync

HeartbeatSpec == Init /\ [][NextHeartbeat]_vars

\* The entry points with the settings panel of the Upload component and
\* page loads.
NextLog ==
  \/ NextOrch
  \/ PageLoad
  \/ ToggleAutoSync
  \/ SaveSettingsButton
LogSpec == Init /\ [][NextLog]_vars

\* The keys the generator draws, and what callers present: a key value or
\* a value that is no key.
KeyValues == {"sk_1", "sk_2"}
Tokens == KeyValues \cup {"sk_0"}
\* Authorization headers: none, Bearer with a token, and other shapes.
Headers ==
  {<<>>} \cup {<<"Bearer", " ", t>> : t \in Tokens}
         \cup {<<"bearer", " ", "sk_1">>, <<"Bearer", " ", " ", "sk_1">>,
               <<"Bearer", " ">>}

\* The read API, the key generator, the operator's switch of is_active
\* and manual entries.
NextApi ==
  \/ \E v \in KeyValues, ok \in BOOLEAN : GenerateApiKey(v, ok)
  \/ \E k \in 1..Cardinality(KeyValues), active \in BOOLEAN : SetKeyActive(k, active)
  \/ \E query \in Tokens \cup {""}, authorization \in Headers, date \in {<<>>, <<"1">>} :
       /\ Len(auditLogs) + Len(auditInFlight) < MaxAudit
       /\ ApiReceive("GET", query, authorization, date)
  \/ ApiReceive("OPTIONS", "", <<>>, <<>>)
  \/ \E ok \in BOOLEAN : ApiKeyLookup(ok)
  \/ \E ok \in BOOLEAN : ApiRecords(ok)
  \/ \E ok \in BOOLEAN : AuditInsert(ok)
  \/ HasRoom /\ ManualAdd(RowA, TRUE)

ApiSpec == Init /\ [][NextApi]_vars

\* Key generation (at application start, by Regenerate) and reads that
\* present keys, with lookups and queries that succeed.
NextKey ==
  \/ \E v \in KeyValues, ok \in BOOLEAN : GenerateApiKey(v, ok)
  \/ \E query \in Tokens \cup {""}, authorization \in {<<>>, <<"Bearer", " ", "sk_1">>} :
       /\ Len(auditLogs) + Len(auditInFlight) < MaxAudit
       /\ ApiReceive("GET", query, authorization, <<>>)
  \/ ApiKeyLookup(TRUE)
  \/ ApiRecords(TRUE)
  \/ AuditInsert(TRUE)
  \/ HasRoom /\ ManualAdd(RowA, TRUE)
KeySpec == Init /\ [][NextKey]_vars

\* Reads with a valid key while rows of several shapes are entered on two
\* days.
NextRead ==
  \/ GenerateApiKey("sk_1", TRUE)
  \/ \E date \in {<<>>} \cup {<<ToString(d)>> : d \in Days} :
       /\ Len(auditLogs) + Len(auditInFlight) < MaxAudit
       /\ ApiReceive("GET", "sk_1", <<>>, date)
  \/ ApiKeyLookup(TRUE)
  \/ ApiRecords(TRUE)
  \/ AuditInsert(TRUE)
  \/ \E row \in {RowA, RowAB, RowId} :
       Len(records) < MaxReadRecords /\ ManualAdd(row, TRUE)
  \/ AdvanceDay

ReadSpec == Init /\ [][NextRead]_vars

\* The texts of objects typed into the manual entry field, each with the
\* object it denotes.
TextA == <<Sym("{"), Str("Name"), Sym(":"), Str("x"), Sym("}")>>
TextAB ==
  <<Sym("{"), Str("Name"), Sym(":"), Str("x"), Sym(","),
    Str("Amt"), Sym(":"), Str("5"), Sym("}")>>
ObjectTexts ==
  {<<TextA, RowA>>, <<TextAB, RowAB>>,
   <<<<Sym(" ")>> \o TextA \o <<Sym(" ")>>, RowA>>,
   <<<<Sym("{"), Sym(" "), Sym("}")>>, {}>>}
\* Texts that are not JSON: a missing brace, a key without quotes, a
\* trailing comma, text after the object, a missing colon.
NotJSON ==
  {SubSeq(TextA, 1, 4),
   <<Sym("{"), Sym("Name"), Sym(":"), Str("x"), Sym("}")>>,
   <<Sym("{"), Str("Name"), Sym(":"), Str("x"), Sym(","), Sym("}")>>,
   TextA \o <<Sym("}")>>,
   <<Sym("{"), Str("Name"), Str("x"), Sym("}")>>}
\* A field left empty or blank.
Blank == {<<>>, <<Sym(" ")>>}
ManualTexts == {p[1] : p \in ObjectTexts} \cup NotJSON \cup Blank

\* Manual entry alone, with inserts that succeed.
NextManual ==
  \/ \E text \in ManualTexts :
       /\ Len(records) < MaxManual \/ text \in NotJSON \cup Blank
       /\ MaBegin(text)
  \/ MaInsert(TRUE)
  \/ AdvanceDay
ManualSpec == Init /\ [][NextManual]_vars

\* ------------------------------------------------------------ claims
Undisturbed(op) == op \notin disturbed

ResultSet(res) == {res[k] : k \in 1..Len(res)}

\* C1 (idempotent resync): a processWorkbook run on the row sequence and
\* the calendar day of the run before it, with no other write to the
\* table since that run began, reports new = 0, decides SKIPPED for every
\* row and leaves the table as it found it.
C1_IdempotentResync ==
  (pw.pc = "done" /\ pw.repeat /\ Undisturbed("pw"))
    => /\ pw.ret.new = 0
       /\ Len(pw.results) = Len(pw.allRows)
       /\ ResultSet(pw.results) = {"SKIPPED"}
       /\ Len(records) = pw.startLen

C1_Witness ==
  /\ pw.pc = "done" /\ pw.repeat /\ Undisturbed("pw")
  /\ Len(pw.allRows) >= 2
  /\ pw.allRows[1] # pw.allRows[2]

\* The records of one day whose payload equals p.
SameContent(recs, date, p) ==
  {k \in 1..Len(recs) : recs[k].date = date /\ recs[k].raw_data = p}

\* C2 (de-duplication invariant): no two records of the table have the
\* same day and content-equal payloads.
C2_NoDuplicateRecords ==
  \A k \in 1..Len(records) :
    SameContent(records, records[k].date, records[k].raw_data) = {k}

\* C3 (content de-duplication of one upload): when a processWorkbook run
\* that nothing else disturbed is over, the records it added are rows of
\* the sheet that had no match (same day, containing payload) before the
\* run, no payload was added twice, and every row of the sheet has a match.
C3_UploadDedup ==
  (pw.pc = "done" /\ Undisturbed("pw")) =>
    LET day == SplitT0(pw.timestamp)
        old == SubSeq(records, 1, pw.startLen)
        added == SubSeq(records, pw.startLen + 1, Len(records))
        rows == {pw.allRows[k] : k \in 1..Len(pw.allRows)}
        Recorded(recs, row) ==
          \E j \in 1..Len(recs) : recs[j].date = day /\ row \subseteq recs[j].raw_data
    IN  /\ \A k \in 1..Len(added) :
             /\ added[k].date = day
             /\ added[k].raw_data \in rows
             /\ ~Recorded(old, added[k].raw_data)
        /\ \A k \in 1..Len(added) :
             SameContent(added, day, added[k].raw_data) = {k}
        /\ \A row \in rows : Recorded(records, row)

\* C4 (day-scoped dedup): when the existence check of a saveRecordSmart
\* call is answered while no record of the call's day contains its
\* payload, the call goes on to its insert, whatever records of other
\* days exist; and its insert adds the record and returns INSERTED.
C4_DayScopedDedup ==
  [][\A k \in 1..Len(pw.calls) :
       LET c == pw.calls[k]
           sameDay == \E j \in 1..Len(records) :
                        /\ records[j].date = SplitT0(c.date)
                        /\ c.row \subseteq records[j].raw_data
           after == pw'.calls[k]
       IN  (pw'.pc = "chunk" /\ pw'.i = pw.i /\ Len(pw'.calls) = Len(pw.calls)) =>
             /\ (c.pc = "check" /\ after.pc # "check" /\ ~sameDay)
                  => after.pc = "insert"
             /\ (c.pc = "insert" /\ after.pc # "insert")
                  => /\ after.res = "INSERTED"
                     /\ records' = Append(records, [date |-> SplitT0(c.date),
                                                    raw_data |-> c.row])
    ]_vars

\* A row was inserted for its day while the same payload was recorded for
\* another day.
C4_Witness ==
  /\ pw.pc = "done" /\ Undisturbed("pw")
  /\ pw.startLen = 1 /\ Len(records) = 2
  /\ records[1].date # records[2].date
  /\ records[1].raw_data = records[2].raw_data
  /\ pw.results = <<"INSERTED">>

\* C5 (commit counts): a processWorkbook run that returns had n >= 1 rows,
\* returns count = n and new = the number of INSERTED decisions, and
\* 0 <= new <= count.
C5_CommitCounts ==
  pw.pc = "done" =>
    /\ Len(pw.allRows) >= 1
    /\ pw.ret.count = Len(pw.allRows)
    /\ pw.ret.new =
         Cardinality({k \in 1..Len(pw.results) : pw.results[k] = "INSERTED"})
    /\ Len(pw.results) = Len(pw.allRows)
    /\ 0 <= pw.ret.new /\ pw.ret.new <= pw.ret.count

C5_Witness ==
  /\ pw.pc = "done"
  /\ ResultSet(pw.results) = {"INSERTED", "ERROR"}

\* C6 (chunking, as the code does it): the chunk loop on n rows makes
\* ceil(n / 50) chunks, every one of 50 rows but the last, which has the
\* rest, and returns count = n; on 137 rows that is two chunks of 50 and
\* one of 37.
C6_Chunking ==
  ck.pc = "done" =>
    /\ ck.ret.count = ck.n
    /\ Len(ck.chunks) = (ck.n + 49) \div 50
    /\ \A k \in 1..Len(ck.chunks) :
         ck.chunks[k] = IF k < Len(ck.chunks) THEN 50 ELSE ck.n - 50 * (k - 1)
    /\ ck.n = 137 => (ck.chunks = <<50, 50, 37>> /\ ck.ret.count = 137)

C6_Witness ==
  ck.pc = "done" /\ ck.n = 137 /\ Len(ck.chunks) = 3 /\ ck.ret.new = 100

\* C6 as stated: on 137 rows the loop processes three chunks of 50 and one
\* of 37, and returns count = 137.
C6_AsStated ==
  (ck.pc = "done" /\ ck.n = 137) =>
    (ck.chunks = <<50, 50, 50, 37>> /\ ck.ret.count = 137)

\* C7 (snapshot retention): after k snapshots were created the collection
\* holds min(k, 5) of them, the last created ones, newest first; so a
\* creation that evicts one evicts the oldest.
C7_SnapshotRetention ==
  /\ Len(backups) = IF nextBackup < 5 THEN nextBackup ELSE 5
  /\ \A k \in 1..Len(backups) : backups[k].id = nextBackup + 1 - k

\* Six snapshots were created, the last two by calls in flight together.
C7_Witness ==
  /\ nextBackup = 6
  /\ Len(backups) = 5
  /\ backups[1].recordCount < backups[2].recordCount

PairCount(rows, date, p) ==
  Cardinality({k \in 1..Len(rows) : rows[k].date = date /\ rows[k].raw_data = p})

C9_EmptySourceRejected ==
  /\ (sy.pc = "done" /\ sy.empty) =>
       /\ sy.status = "ERROR" /\ sy.errorMessage = NoDataMsg
       /\ sy.snaps = 0 /\ pw.calls = <<>> /\ pw.results = <<>>
  /\ (ap.pc = "done" /\ ap.empty) =>
       /\ ap.log.status = "ERROR"
       /\ ap.snaps = 0 /\ ap.wrote = 0
  /\ (hs.pc = "done" /\ hs.empty) =>
       /\ hs.log.status = "ERROR"
       /\ hs.snaps = 0 /\ hs.wrote = 0

\* The credential of the request in hand: its apiKey query parameter, else
\* the token of an Authorization header made of Bearer, one space and a
\* token; "" for none.
BearerToken ==
  IF /\ Len(req.authorization) = 3
     /\ req.authorization[1] = "Bearer"
     /\ req.authorization[2] = " "
     /\ req.authorization[3] \notin {" ", ""}
  THEN req.authorization[3]
  ELSE ""

Credential == IF req.query # "" THEN req.query ELSE BearerToken

\* C10 (read API authentication): a GET request without a credential is
\* answered 401; one whose credential was not the value of an active key
\* when the keys were looked up is answered 403; neither response has
\* record data, and a response has record data only if the credential was
\* the value of an active key.
C10_ReadApiAuth ==
  (req.pc = "responded" /\ req.method = "GET") =>
    /\ Credential = "" =>
         (req.status = 401 /\ "data" \notin DOMAIN req.body)
    /\ (Credential # "" /\ Credential \notin req.activeAtLookup) =>
         (req.status = 403 /\ "data" \notin DOMAIN req.body)
    /\ "data" \in DOMAIN req.body =>
         (Credential # "" /\ Credential \in req.activeAtLookup)

\* The key of an inactive row was presented while records were stored, and
\* refused.
C10_Witness ==
  /\ req.pc = "responded" /\ req.method = "GET"
  /\ req.status = 403
  /\ \E k \in 1..Len(apiKeys) :
       apiKeys[k].key_value = Credential /\ ~apiKeys[k].is_active
  /\ Credential \notin req.activeAtLookup
  /\ records # <<>>

\* The records a read with the request's date parameter is to return:
\* all of them, or those of the day asked for.
Asked == IF req.date = <<>> THEN 1..Len(records)
         ELSE {k \in 1..Len(records) : records[k].date = req.date}

\* C11 (date filter): the 200 response to GET /data?date=D has one item for
\* every record of day D and no other item, the record created last first;
\* without the date parameter it has one item for every record, the record
\* created last first.
C11_DateFilter ==
  [][(req.pc = "query" /\ req'.pc = "responded" /\ req'.status = 200) =>
       /\ Len(req'.body.data) = Cardinality(Asked)
       /\ \A j \in 1..Len(req'.body.data) :
            \E k \in Asked :
              /\ Cardinality({m \in Asked : m > k}) = j - 1
              /\ records[k].raw_data \subseteq req'.body.data[j]
              /\ \E p \in req'.body.data[j] : p[1] = "date"]_vars

\* Two records of day 1 with different payloads and one of day 2 are
\* stored, and day 1 was asked for.
C11_Witness ==
  /\ req.pc = "responded" /\ req.status = 200
  /\ req.date = <<"1">>
  /\ req.body.count = 2
  /\ Len(records) = 3
  /\ records[1].raw_data # records[2].raw_data
  /\ records[3].date = <<"2">>

\* C12 (response shape): in a 200 response count is the number of items,
\* requester is the owner of the key presented, and the item of a record
\* has the record's system id as id, the record's day as date, and every
\* field of the payload, whatever the payload's fields are called.
C12_ResponseShape ==
  [][(req.pc = "query" /\ req'.pc = "responded" /\ req'.status = 200) =>
       /\ req'.body.count = Len(req'.body.data)
       /\ \E n \in 1..Len(apiKeys) :
            /\ apiKeys[n].key_value = Credential
            /\ apiKeys[n].owner_name = req'.body.requester
       /\ \A j \in 1..Len(req'.body.data) :
            \E k \in Asked :
              /\ Cardinality({m \in Asked : m > k}) = j - 1
              /\ <<"id", ToString(k)>> \in req'.body.data[j]
              /\ <<"date", records[k].date>> \in req'.body.data[j]
              /\ records[k].raw_data \subseteq req'.body.data[j]]_vars

\* C13 (store errors on the read API): a GET request during which the
\* key lookup or the records query failed is answered 500.
C13_StoreErrorIs500 ==
  (req.pc = "responded" /\ req.method = "GET" /\ req.storeFailed) =>
    req.status = 500

\* C14 (audit of pulls): a GET request that is answered 200 has sent one
\* audit insert, and the answer of an audit insert, failed or not, leaves
\* the request and its response as they are.
C14_AuditOfPulls ==
  [][/\ (req'.pc = "responded" /\ req'.method = "GET" /\ req'.status = 200) =>
          req'.audits = 1
     /\ Len(auditInFlight') < Len(auditInFlight) => req' = req]_vars

\* A 200 response was sent while its audit insert was still in flight.
C14_Witness ==
  /\ req.pc = "responded" /\ req.method = "GET" /\ req.status = 200
  /\ auditInFlight # <<>>
  /\ auditLogs = <<>>

\* C15 (manual entry is never de-duplicated): a manual add of the text of
\* a JSON object hands that object and the day of the call to one insert,
\* and the insert appends exactly one record with them whatever the table
\* holds; a text that is not JSON, or a blank one, inserts nothing.
C15_ManualNeverDeduplicated ==
  [][/\ (ma.pc = "idle" /\ ma' # ma) =>
          /\ \A p \in ObjectTexts : ma'.text = p[1] =>
               /\ ma'.pc = "insert"
               /\ ma'.raw_data = p[2]
               /\ ma'.date[1] = ToString(today)
          /\ ma'.text \in NotJSON \cup Blank => ma'.pc = "idle"
          /\ records' = records
     /\ (ma.pc = "insert" /\ ma' # ma) =>
          /\ ma'.pc = "idle"
          /\ records' = Append(records, [date |-> <<ma.date[1]>>, raw_data |-> ma.raw_data])]_vars

\* Two manual adds of the same object on the same day left two records,
\* and a text that is not JSON was refused after them.
C15_Witness ==
  /\ Len(records) = 2
  /\ records[1] = records[2]
  /\ ma.pc = "idle" /\ ma.text \in NotJSON /\ ma.alert = InvalidJSONAlert

\* C16 (sync log ring buffer): after k entries were appended the stored
\* sync log holds the min(k, 15) latest of them, newest first.
C16_SyncLogRing ==
  LET m == IF nextLog < KeepLogs THEN nextLog ELSE KeepLogs
  IN  /\ Len(settings.syncLogs) = m
      /\ \A j \in 1..m : settings.syncLogs[j].n = nextLog + 1 - j

\* A run of an entry point is over and failed: its catch block received
\* an exception, or its source had no data row.
Failed(run) == run.pc = "done" /\ (run.thrown # "" \/ run.empty)

\* C17 (failed sync outcome): a sheet sync of Upload, a scheduled pull or
\* a Dashboard sync that failed handed one ERROR entry with the failure's
\* message to the sync log and asked for no snapshot.
C17_FailedSyncOutcome ==
  \A run \in {sy, ap, hs} :
    (Failed(run) /\ (run = sy => sy.kind = "sheet")) =>
      /\ run.log.status = "ERROR"
      /\ run.thrown # "" => run.log.message = run.thrown
      /\ run.snaps = 0

\* The same for the runs whose fetch failed, whatever C9 makes of an
\* empty source.
C17_FetchFailures ==
  \A run \in {sy, ap, hs} :
    (run.pc = "done" /\ run.thrown # "" /\ ~run.empty) =>
      /\ run.log.status = "ERROR"
      /\ run.log.message = run.thrown
      /\ run.snaps = 0

\* The messages of the not-published error.
NotPublished == {InvalidLinkMsg, NotPublishedMsg}

\* C18 (not-published classification): a sheet sync whose sheet URL
\* answered with a success status and a body with an HTML document marker
\* failed with the not-published error, fetched through the relay or not.
C18_NotPublished ==
  (/\ sy.pc = "done" /\ sy.kind \in SheetSyncs
   /\ ~sy.up.threw /\ sy.up.status \in 200..299
   /\ \E i \in 1..Len(sy.up.body.chunks) :
        sy.up.body.chunks[i] \in {"<!DOCTYPE html", "<html"}) =>
    /\ sy.status = "ERROR"
    /\ sy.thrown \in NotPublished

\* C19 (the relay rejects HTML): no relay handler answers 200 with a body
\* that has an HTML document marker.
C19_RelayRejectsHtml ==
  (relay.pc = "responded" /\ relay.response.status = 200) =>
    \A i \in 1..Len(relay.response.body.chunks) :
      relay.response.body.chunks[i] \notin {"<!DOCTYPE html", "<html"}

RECURSIVE InFlight(_)
InFlight(flight) ==
  IF flight = <<>> THEN 0 ELSE Head(flight) + InFlight(Tail(flight))

\* C21: during a processWorkbook run at most 50 saveRecordSmart calls are
\* in flight, all of them belong to the chunk issued last, and the calls
\* of a chunk are issued only when every call of the chunk before it has
\* resolved.
C21_ChunkSequentialDispatch ==
  /\ InFlight(dl.flight) <= 50
  /\ \A c \in 1..Len(dl.flight) : c < Len(dl.flight) => dl.flight[c] = 0

\* A run of more than 100 rows has a full second chunk in flight, and later
\* its third.
C21_Witness ==
  /\ dl.n > 100
  /\ Len(dl.flight) = 3
  /\ dl.flight[3] > 0
  /\ dl.flight[3] < dl.n - 100
\* C22: a saveRecordSmart call whose existence check failed reports an
\* error: it returns neither INSERTED nor SKIPPED, and its row is not
\* inserted.
C22_FailedCheckIsError ==
  \A k \in 1..Len(pw.calls) :
    ~pw.calls[k].checked => pw.calls[k].res \notin {"INSERTED", "SKIPPED"}
\* C23 (best-effort commit): when a processWorkbook run in which the
\* decision of some row ended in ERROR returns, every row of the sheet was
\* decided, the run returned normally with the failed row counted in count
\* and not in new, and its caller went on to its SUCCESS entry: the sync
\* is not a failed run.
C23_BestEffortCommit ==
  [][(pw.pc = "chunk" /\ pw'.pc = "done" /\ "ERROR" \in ResultSet(pw'.results)) =>
       /\ Len(pw'.results) = Len(pw.allRows)
       /\ pw'.err = IdlePw.err
       /\ pw'.ret.count = Len(pw.allRows)
       /\ pw'.ret.new =
            Cardinality({k \in 1..Len(pw'.results) : pw'.results[k] = "INSERTED"})
       /\ sy'.pc \in {"backup", "done"}
       /\ ~Failed(sy')
       /\ sy'.status # "ERROR"
       /\ sy'.log.status = "SUCCESS"
       /\ sy'.log.new = pw'.ret.new
       /\ sy.kind = "sheet" => sy'.log.count = Len(pw.allRows)]_vars

\* A sheet sync of two rows is over: the first row's insert failed, the
\* second row was inserted all the same, and the run logged SUCCESS.
C23_Witness ==
  /\ pw.pc = "done"
  /\ pw.results = <<"ERROR", "INSERTED">>
  /\ sy.kind = "sheet" /\ sy.pc = "done" /\ sy.status = "SUCCESS"
  /\ sy.log = Log("SUCCESS", "Synced", 2, 1)
\* C24 (check-then-insert race): when the insert of a scheduled pull's row
\* succeeds while a processWorkbook run in flight has already inserted the
\* same payload for the same day (both calls passed the existence check
\* before either insert), the pull's call returns INSERTED as well and the
\* table holds two content-equal records of that day.
C24_CheckThenInsertRace ==
  [][\A k \in 1..Len(pw.calls) :
       (/\ ap.pc = "row" /\ ap.call.pc = "insert"
        /\ ap' # ap
        /\ pw.calls[k].res = "INSERTED"
        /\ pw.calls[k].row = ap.call.row
        /\ SplitT0(pw.calls[k].date) = SplitT0(ap.call.date)) =>
         /\ ap'.rowCount = ap.rowCount + 1
         /\ Cardinality(SameContent(records', SplitT0(ap.call.date), ap.call.row)) >= 2]_vars

\* Both runs are over, each of one row RowA of the same day and each
\* counting one INSERTED, and the table holds RowA twice for that day.
C24_Witness ==
  /\ pw.pc = "done" /\ pw.allRows = <<RowA>> /\ pw.results = <<"INSERTED">>
  /\ ap.pc = "done" /\ ap.log = Log("SUCCESS", "Daily Auto-Pull", 0, 1)
  /\ Len(records) = 2
  /\ records[1] = records[2]
  /\ records[1] = [date |-> SplitT0(pw.timestamp), raw_data |-> RowA]
\* C25 (no self-overlap): at most one scheduled pull is in flight at any
\* time.
C25_NoSelfOverlap == Len(hb.pulls) <= 1
\* C26 (non-atomic restore): a restore of a snapshot with rows, once its
\* clear is answered and before its first chunk, has the table empty; and
\* a restore interrupted after its clear leaves the table with the rows of
\* the snapshot's first chunks only: none of them when it was interrupted
\* before the first chunk landed.
C26_NonAtomicRestore ==
  LET rows == RestoreRows(JSONParse(rb.target.data))
  IN  /\ (rb.pc = "insert" /\ rb.i = 0 /\ Undisturbed("rb")) =>
           /\ Len(rows) > 0
           /\ records = <<>>
      /\ (rb.pc = "interrupted" /\ Undisturbed("rb")) =>
           /\ (rb.at = "clear" /\ rb.landed) => records = <<>>
           /\ rb.at = "insert" =>
                records = Take(rows, rb.i + (IF rb.landed THEN 50 ELSE 0))

\* A store of 51 records was snapshotted; the restore of the snapshot was
\* interrupted after its clear and before its first chunk landed, and the
\* table is empty.
C26_Witness ==
  /\ rb.pc = "interrupted" /\ rb.at = "insert" /\ rb.i = 0 /\ ~rb.landed
  /\ rb.target.recordCount = 51
  /\ rb.startLen = 51
  /\ records = <<>>
\* C27 (restore of an unknown snapshot): a restoreBackup call with an id
\* that no stored snapshot has returns false at once, and leaves the
\* records and the snapshots as they were.
C27_UnknownSnapshot ==
  [][(/\ rb.pc \in {"idle", "done", "interrupted"}
      /\ rb' # rb
      /\ \A k \in 1..Len(backups) : backups[k].id # rb'.id) =>
       /\ rb'.pc = "done" /\ rb'.ret = FALSE
       /\ records' = records
       /\ backups' = backups]_vars

\* restoreBackup has returned false for an id no snapshot has, with
\* records in the table and a snapshot stored.
C27_Witness ==
  /\ rb.pc = "done" /\ rb.ret = FALSE
  /\ backups # <<>>
  /\ \A k \in 1..Len(backups) : backups[k].id # rb.id
  /\ records # <<>>
  /\ Len(records) = rb.startLen
\* The createBackup calls of an entry point that have not stored their
\* snapshot yet.
PendingBackups(owner) == {k \in 1..Len(cbs) : cbs[k].owner = owner}

\* C28 (order of a successful sync): a sheet sync of Upload, a scheduled
\* pull or a Dashboard sync asks for its snapshot only when its batch is
\* committed, and has its one snapshot stored when its SUCCESS entry is
\* in the log.
C28_SyncOrder ==
  /\ (sy.kind \in SheetSyncs /\ sy.snaps >= 1) => pw.pc = "done"
  /\ ap.snaps >= 1 => ap.pc = "done"
  /\ hs.snaps >= 1 => hs.pc = "done"
  /\ (sy.kind \in SheetSyncs /\ sy.log.status = "SUCCESS") =>
       sy.snaps = 1 /\ PendingBackups("sy") = {}
  /\ ap.log.status = "SUCCESS" => ap.snaps = 1 /\ PendingBackups("ap") = {}
  /\ hs.log.status = "SUCCESS" => hs.snaps = 1 /\ PendingBackups("hs") = {}
\* C29 (insert accounting): a processWorkbook run that no other writer
\* disturbed leaves as many records as it found plus the new it returns;
\* and every call of it that returns INSERTED has appended one record with
\* the batch's day and the row's payload to the records that were there,
\* while a call that returns SKIPPED or ERROR leaves the table as it was.
C29_InsertAccounting ==
  [][/\ (pw'.pc = "done" /\ "pw" \notin disturbed') =>
          Len(records') = pw'.startLen + pw'.ret.new
     /\ \A k \in 1..Len(pw.calls) :
          (/\ pw'.pc = "chunk" /\ Len(pw'.calls) = Len(pw.calls)
           /\ pw.calls[k].pc # "done" /\ pw'.calls[k].pc = "done") =>
            records' = IF pw'.calls[k].res = "INSERTED"
                       THEN Append(records, [date |-> SplitT0(pw.timestamp),
                                             raw_data |-> pw.calls[k].row])
                       ELSE records]_vars

\* A run on a table that had a record is over undisturbed: one of its two
\* rows was inserted and the insert of the other failed.
C29_Witness ==
  /\ pw.pc = "done" /\ Undisturbed("pw")
  /\ pw.startLen >= 1
  /\ ResultSet(pw.results) = {"INSERTED", "ERROR"}
  /\ Len(records) = pw.startLen + 1
\* C30 (audit entries match served pulls): a GET request that was answered
\* 401, 403 or 500 has sent no audit insert, so that every API_PULL
\* SUCCESS entry of audit_logs stands for a request answered 200.
C30_AuditOnlyServed ==
  (req.pc = "responded" /\ req.method = "GET" /\ req.status \in {401, 403, 500}) =>
    req.audits = 0
====
